---- MODULE Spec2Model ----
(***************************************************************************)
(* A model of c3d, a software rasterizer for the Windows terminal.         *)
(*                                                                         *)
(* Numbers.  The program computes in 32-bit floats; the model computes in  *)
(* exact integer arithmetic:                                               *)
(*   - a world length l is the integer 5*l (fnear = 0.2 is 1);             *)
(*   - an angle a is the integer 2*a (units of 0.5 rad), and cosf / sinf   *)
(*     are tables of 10*cos and 10*sin rounded to integers, so a rotation  *)
(*     matrix is held multiplied by TrigScale;                             *)
(*   - the projection matrix is held multiplied by FScale*(ffar - fnear);  *)
(*   - a value produced by a division (a clipped vertex) is held as a      *)
(*     numerator with a positive denominator beside it.                    *)
(* A matrix multiplied by a positive number gives clip coordinates         *)
(* multiplied by that number: the signs of w and of z + w and the          *)
(* quotients x/w, y/w, z/w are those of the program.                       *)
(*                                                                         *)
(* Memory.  heap.live is the set of live allocations, heap.next the next   *)
(* address malloc returns (addresses are never reused, so a stale pointer  *)
(* stays recognisable), 0 is NULL.  heap.mtl[m] is the diffuse_tex pointer *)
(* of the material at m, heap.tex[t] the data pointer of the texture at t, *)
(* heap.img[p] the picture whose texels are at p.                          *)
(***************************************************************************)
EXTENDS Integers, Sequences, FiniteSets, TLC

VARIABLES
    d,      \* the display (struct display_t)
    heap,   \* the allocator's state and the structs that hold pointers
    g,      \* the driver's history: the last call made and what it did
    io      \* the argument and the result of the function under study

vars == <<d, heap, g, io>>

(***************************************************************************)
(* Bounds of the model.                                                    *)
(***************************************************************************)
MaxFrames == 2          \* c3d_update calls in one run
MaxLoads == 2           \* loads and resets in one run
WinWidth == 4           \* columns the terminal window leaves to the display
WinHeight == 2          \* rows the terminal window leaves to the display
MaxEvents == 3          \* input events handled in one run
FrameCols == 2          \* width of the frames given to c3d_render
FrameRows == 2          \* height of the frames given to c3d_render
MaxTris == 3            \* triangles rasterized into one frame
MaxFaceTokens == 5      \* vertex tokens on a face line of an OBJ file
MaxMtlLines == 3        \* directive lines of an MTL file
MaxSmooth == 2          \* c3d_vecnormalavg calls on a loaded mesh

(***************************************************************************)
(* Program constants.                                                      *)
(***************************************************************************)
ResetWidth == 800
ResetHeight == 600
ResetFov == 70
TrigScale == 10
FScale == 7
NULL == 0

Abs(x) == IF x < 0 THEN -x ELSE x
Sign(x) == IF x < 0 THEN -1 ELSE IF x > 0 THEN 1 ELSE 0
Min2(a, b) == IF a < b THEN a ELSE b
Max2(a, b) == IF a > b THEN a ELSE b

RECURSIVE Gcd(_, _)
Gcd(a, b) == IF b = 0 THEN Abs(a) ELSE Gcd(b, a % Abs(b))

(***************************************************************************)
(* Linear algebra.                                                         *)
(***************************************************************************)
ZeroMat == << <<0, 0, 0, 0>>, <<0, 0, 0, 0>>, <<0, 0, 0, 0>>, <<0, 0, 0, 0>> >>

\* 10*cos(a/2) and 10*sin(a/2), rounded, for a in units of 0.5 rad.
CosTable == <<10, 9, 5, 1, -4, -8, -10>>
SinTable == <<0, 5, 8, 10, 9, 6, 1>>
cosf(a) == CosTable[Abs(a) + 1]
sinf(a) == Sign(a) * SinTable[Abs(a) + 1]

c3d_mat4rtx(theta) ==
    LET cos_theta == cosf(-theta)
        sin_theta == sinf(-theta)
    IN << <<TrigScale, 0, 0, 0>>,
          <<0, cos_theta, -sin_theta, 0>>,
          <<0, sin_theta, cos_theta, 0>>,
          <<0, 0, 0, TrigScale>> >>

c3d_mat4rty(theta) ==
    LET cos_theta == cosf(-theta)
        sin_theta == sinf(-theta)
    IN << <<cos_theta, 0, sin_theta, 0>>,
          <<0, TrigScale, 0, 0>>,
          <<-sin_theta, 0, cos_theta, 0>>,
          <<0, 0, 0, TrigScale>> >>

c3d_mat4tra(x, y, z) ==
    << <<1, 0, 0, x>>, <<0, 1, 0, y>>, <<0, 0, 1, z>>, <<0, 0, 0, 1>> >>

c3d_mat4mul(A, B) ==
    [i \in 1..4 |-> [j \in 1..4 |->
        A[i][1]*B[1][j] + A[i][2]*B[2][j] + A[i][3]*B[3][j] + A[i][4]*B[4][j]]]

\* FScale / tan(fov / 2), rounded, for fov in degrees.
CotHalf(fov) == CASE fov = 90 -> 7 [] fov = 70 -> 10 [] OTHER -> 12

\* The projection matrix times FScale * (ffar - fnear).
c3d_mat4prj(fnear, ffar, fov, aspect) ==
    LET f == CotHalf(fov)
    IN << <<(f * (ffar - fnear)) \div aspect, 0, 0, 0>>,
          <<0, f * (ffar - fnear), 0, 0>>,
          <<0, 0, -(FScale * (ffar + fnear)), -(FScale * 2 * ffar * fnear)>>,
          <<0, 0, -(FScale * (ffar - fnear)), 0>> >>

(***************************************************************************)
(* Camera and display construction.                                        *)
(***************************************************************************)
c3d_initcam(position, fov, speed) ==
    [pos |-> position, speed |-> speed, fov |-> fov, theta |-> 0,
     aspect |-> 1, fnear |-> 1, ffar |-> 2500, yaw |-> 0, pitch |-> 0,
     matrot |-> ZeroMat]

c3d_initdisplay(camera, display_width, display_height, background_color) ==
    [running |-> TRUE, meshes |-> <<>>, behaviors |-> <<>>, lights |-> <<>>,
     frame_count |-> 0, camera |-> camera,
     display_width |-> display_width, display_height |-> display_height,
     background_color |-> background_color]

mesh_count(D) == Len(D.meshes)
behavior_count(D) == Len(D.behaviors)
light_count(D) == Len(D.lights)

(***************************************************************************)
(* The allocator.                                                          *)
(***************************************************************************)
EmptyHeap ==
    [live |-> {}, next |-> 1, dfree |-> {}, exited |-> FALSE,
     mtl |-> [a \in {} |-> 0], tex |-> [a \in {} |-> 0], img |-> [a \in {} |-> ""]]

\* malloc: the address handed out is h.next.
Malloc(h) == [h EXCEPT !.live = @ \cup {h.next}, !.next = @ + 1]
MallocN(h, n) == [h EXCEPT !.live = @ \cup (h.next .. (h.next + n - 1)), !.next = @ + n]

\* free(a): free(NULL) does nothing; freeing what is not live is recorded.
Free(h, a) ==
    IF a = NULL THEN h
    ELSE IF a \in h.live THEN [h EXCEPT !.live = @ \ {a}]
    ELSE [h EXCEPT !.dfree = @ \cup {a}]

FreeAll(h, S) ==
    [h EXCEPT !.live = @ \ S, !.dfree = @ \cup ((S \ {NULL}) \ h.live)]

Put(f, a, v) == [x \in (DOMAIN f) \cup {a} |-> IF x = a THEN v ELSE f[x]]

(***************************************************************************)
(* Loading a mesh from a model folder.  The folder is the input:           *)
(*   hasMtl  - it holds an .mtl file that defines a material               *)
(*   mapKd   - that material names a map_Kd image that decodes             *)
(*   hasImg  - it holds a .png / .jpg file                                 *)
(*   decodes - stb_image decodes that file                                 *)
(*   hasObj  - it holds an .obj file (c3d_loadmesh exits without one)      *)
(* The result is the mesh and the heap after the call.  File names and     *)
(* path strings are not modelled.                                          *)
(***************************************************************************)
Folders ==
    { [hasMtl |-> FALSE, mapKd |-> FALSE, hasImg |-> TRUE, decodes |-> TRUE, hasObj |-> TRUE],
      [hasMtl |-> FALSE, mapKd |-> FALSE, hasImg |-> TRUE, decodes |-> FALSE, hasObj |-> TRUE],
      [hasMtl |-> FALSE, mapKd |-> FALSE, hasImg |-> FALSE, decodes |-> FALSE, hasObj |-> TRUE],
      [hasMtl |-> TRUE, mapKd |-> TRUE, hasImg |-> TRUE, decodes |-> TRUE, hasObj |-> TRUE],
      [hasMtl |-> TRUE, mapKd |-> FALSE, hasImg |-> TRUE, decodes |-> FALSE, hasObj |-> TRUE],
      [hasMtl |-> FALSE, mapKd |-> FALSE, hasImg |-> FALSE, decodes |-> FALSE, hasObj |-> FALSE] }

\* c3d_loadimg: the texture value (its data pointer) and the heap.
c3d_loadimg(h, decodes) ==
    IF decodes THEN [h |-> [Malloc(h) EXCEPT !.img = Put(@, h.next, "image")], data |-> h.next]
    ELSE [h |-> h, data |-> NULL]

\* c3d_generic_texgen: always a decoded checkerboard.
c3d_generic_texgen(h) ==
    [h |-> [Malloc(h) EXCEPT !.img = Put(@, h.next, "generic")], data |-> h.next]

\* c3d_loadmtl: the materials array, and materials[0].diffuse_tex.  img is
\* what c3d_loadimg gave for the map_Kd line.
LoadMtlTexture(h, img) ==
    IF img.data # NULL
    THEN [h |-> [Malloc(img.h) EXCEPT !.tex = Put(@, img.h.next, img.data)],
          materials |-> h.next, diffuse_tex |-> img.h.next]
    ELSE [h |-> img.h, materials |-> h.next, diffuse_tex |-> NULL]

c3d_loadmtl(h, folder) == LoadMtlTexture(h, c3d_loadimg(Malloc(h), folder.mapKd))

\* c3d_loadmesh, in the order of its code.  The OBJ: lobj and its four
\* arrays (never freed), then new_mesh.tris and new_mesh.name.
LoadMeshObj(h) == [h |-> MallocN(h, 7), tris |-> h.next + 5, name |-> h.next + 6]

\* The material: new_mesh.mtl and its diffuse_tex, from the materials lm of
\* the MTL file and the texture tex of the image.
LoadMeshMaterial(ob, lm, tex, folder) ==
    LET mtl == tex.h.next
        h4 == Malloc(tex.h)                      \* new_mesh.mtl
        fresh == h4.next                         \* a texture struct, if one is allocated
        withFresh == [Malloc(h4) EXCEPT !.tex = Put(@, fresh, tex.data),
                                        !.mtl = Put(@, mtl, fresh)]
        h5 == IF lm.materials # NULL
              THEN IF lm.diffuse_tex = NULL THEN withFresh
                   ELSE IF h4.tex[lm.diffuse_tex] = NULL
                        THEN [h4 EXCEPT !.tex = Put(@, lm.diffuse_tex, tex.data),
                                        !.mtl = Put(@, mtl, lm.diffuse_tex)]
                        ELSE [h4 EXCEPT !.mtl = Put(@, mtl, lm.diffuse_tex)]
              ELSE IF tex.data # NULL THEN withFresh
                   ELSE [h4 EXCEPT !.mtl = Put(@, mtl, NULL)]
    IN [h |-> [h5 EXCEPT !.exited = @ \/ ~folder.hasObj],   \* exit(-1) without an OBJ
        m |-> [name |-> ob.name, tris |-> ob.tris, mtl |-> mtl]]

\* The image: c3d_loadimg on the folder's picture, or the generic texture.
LoadMeshImage(ob, lm, folder) ==
    LoadMeshMaterial(ob, lm,
                     IF folder.hasImg THEN c3d_loadimg(lm.h, folder.decodes)
                     ELSE c3d_generic_texgen(lm.h),
                     folder)

\* The MTL file, if the folder has one.
LoadMeshMtl(ob, folder) ==
    LoadMeshImage(ob,
                  IF folder.hasMtl THEN c3d_loadmtl(ob.h, folder)
                  ELSE [h |-> ob.h, materials |-> NULL, diffuse_tex |-> NULL],
                  folder)

c3d_loadmesh(h, folder) == LoadMeshMtl(LoadMeshObj(h), folder)

(***************************************************************************)
(* Display mutation primitives.                                            *)
(***************************************************************************)
c3d_meshadd(D, new_mesh) == [D EXCEPT !.meshes = Append(@, new_mesh)]

c3d_lightadd(D, new_light) == [D EXCEPT !.lights = Append(@, new_light)]

c3d_behavioradd(D, func, type, args) ==
    [D EXCEPT !.behaviors = Append(@, [func |-> func, type |-> type, args |-> args])]

\* What the meshes of D own: triangle arrays, materials, texture structs
\* and texture data.
MeshTris(D) == {D.meshes[i].tris : i \in 1..Len(D.meshes)} \ {NULL}
MeshMtls(D) == {D.meshes[i].mtl : i \in 1..Len(D.meshes)} \ {NULL}
MeshTexs(D, h) == {h.mtl[m] : m \in MeshMtls(D)} \ {NULL}
MeshTexData(D, h) == {h.tex[t] : t \in MeshTexs(D, h)} \ {NULL}
Owned(D, h) == MeshTris(D) \cup MeshMtls(D) \cup MeshTexs(D, h) \cup MeshTexData(D, h)

RECURSIVE FreeTris(_, _, _)
FreeTris(h, meshes, i) ==
    IF i > Len(meshes) THEN h
    ELSE FreeTris(Free(h, meshes[i].tris), meshes, i + 1)

\* c3d_resetdisplay: the display and the heap after the call.
ResetFields(D) ==
    [D EXCEPT !.background_color = <<0, 0, 0>>,
              !.camera.pos = <<0, 0, 0>>,
              !.camera.fov = ResetFov,
              !.camera.speed = 5,
              !.display_width = ResetWidth,
              !.display_height = ResetHeight,
              !.meshes = <<>>,
              !.frame_count = 0]

c3d_resetdisplay(D, h) ==
    [d |-> ResetFields(D), h |-> FreeTris(h, D.meshes, 1)]

(***************************************************************************)
(* Behaviours.  A behaviour is [func, type, args]; func names the callback *)
(* (NULL for none).  The callbacks that only move triangles (rotate,       *)
(* moveto, scalemesh and their _id forms) leave the mesh list and the heap *)
(* as they are, and stand here as rotate_id.                               *)
(***************************************************************************)
CONTINUOUS == "C3D_CONTINUOUS_BEHAVIOR"
STARTUP == "C3D_STARTUP_BEHAVIOR"

\* c3d_behavior_swapmesh_id: args.id is the mesh index (from 0), args.folder
\* the folder to load.  First the old mesh's triangles and diffuse texture
\* are freed; then the new mesh is appended and also stored at the index.
SwapMeshFree(h, old) ==
    IF h.mtl[old.mtl] # NULL
    THEN Free(Free(Free(h, old.tris), h.tex[h.mtl[old.mtl]]), h.mtl[old.mtl])
    ELSE Free(h, old.tris)

SwapMeshStore(D, id, lm) ==
    [d |-> [c3d_meshadd(D, lm.m) EXCEPT !.meshes[id + 1] = lm.m], h |-> lm.h]

c3d_behavior_swapmesh_id(D, h, args) ==
    IF args.id >= 0 /\ args.id < mesh_count(D)
    THEN SwapMeshStore(D, args.id,
                       c3d_loadmesh(SwapMeshFree(h, D.meshes[args.id + 1]), args.folder))
    ELSE [d |-> D, h |-> h]

\* b->func(d, b->argc, b->args)
CallBehavior(D, h, b) ==
    CASE b.func = "swapmesh_id" -> c3d_behavior_swapmesh_id(D, h, b.args)
      [] OTHER -> [d |-> D, h |-> h]

\* A c3d_update that runs a STARTUP behaviour on every frame.
ExecutesAlways(D, b) == b.func # "NULL"

\* Whether c3d_update executes behaviour b on display D.
Executes(D, b) ==
    /\ b.func # "NULL"
    /\ \/ b.type = CONTINUOUS
       \/ b.type = STARTUP /\ D.frame_count = 0

\* The behaviour loop of c3d_update, from behaviour i on: the display, the
\* heap, and ran[i], the number of times behaviour i was called.
RECURSIVE RunBehaviors(_, _, _, _)
RunRest(r, i, ran) == RunBehaviors(r.d, r.h, i, ran)

RunBehaviors(D, h, i, ran) ==
    IF i > behavior_count(D) THEN [d |-> D, h |-> h, ran |-> ran]
    ELSE IF Executes(D, D.behaviors[i])
         THEN RunRest(CallBehavior(D, h, D.behaviors[i]), i + 1, Append(ran, 1))
         ELSE RunBehaviors(D, h, i + 1, Append(ran, 0))

\* c3d_render's memory: output_buffer is allocated and not freed.
RenderAlloc(h) == Malloc(h)

\* An update that also ends the main loop.
UpdateFrameStopping(rb) ==
    [d |-> [rb.d EXCEPT !.frame_count = @ + 1, !.running = FALSE], h |-> rb.h,
     ran |-> rb.ran, frame |-> {}]

\* The rest of c3d_update, at the level of the display and the heap: the
\* frame buffers (three arrays of display_height rows each), the frame
\* counter and the composer.  frame is the set of buffers the call allocated.
UpdateFrame(rb) ==
    LET n == 3 + 3 * rb.d.display_height       \* depthBuffer, buffer, colorBuffer, rows
        scratch == rb.h.next .. (rb.h.next + n - 1)
        output_buffer == rb.h.next + n
    IN [d |-> [rb.d EXCEPT !.frame_count = @ + 1],   \* unsigned: wraps after 2^32 frames
        h |-> FreeAll(RenderAlloc(MallocN(rb.h, n)), scratch),
        ran |-> rb.ran, frame |-> rb.h.next .. output_buffer]   \* scratch and output_buffer

c3d_update(D, h) == UpdateFrame(RunBehaviors(D, h, 1, <<>>))

(***************************************************************************)
(* Scene files.  A scene is what its sections hold: the folders of its     *)
(* [meshes] lines, its [lights] lines, its behaviour lines, its            *)
(* background colour and its camera position.                              *)
(***************************************************************************)
ImgFolder == [hasMtl |-> FALSE, mapKd |-> FALSE, hasImg |-> TRUE, decodes |-> TRUE, hasObj |-> TRUE]
BadImgFolder == [hasMtl |-> FALSE, mapKd |-> FALSE, hasImg |-> TRUE, decodes |-> FALSE, hasObj |-> TRUE]
MtlFolder == [hasMtl |-> TRUE, mapKd |-> TRUE, hasImg |-> TRUE, decodes |-> TRUE, hasObj |-> TRUE]

NoObjFolder == [hasMtl |-> FALSE, mapKd |-> FALSE, hasImg |-> FALSE, decodes |-> FALSE, hasObj |-> FALSE]

\* The folders that c3d_loadobjfolder is given.
MenuFolders == {ImgFolder, BadImgFolder, MtlFolder, NoObjFolder}

\* A light colour component of 1.0
LightOne == 255

\* A [lights] line "1 0 3 255 0 0 4 5".  A light holds its position in units
\* of length, its colour times 255 (the file's 255 is stored as 255.0, not
\* 1.0), its brightness, and its radius in tenths.
RedLight == [position |-> <<5, 0, 15>>, color |-> <<65025, 0, 0>>, brightness |-> 4, radius |-> 50]

Rotate(type) == [func |-> "rotate_id", type |-> type, args |-> [id |-> 0]]
SwapMesh(type) ==
    [func |-> "swapmesh_id", type |-> type, args |-> [id |-> 0, folder |-> ImgFolder]]

Scenes ==
    { [meshes |-> <<ImgFolder>>, lights |-> <<RedLight>>,
       behaviors |-> <<Rotate(STARTUP), Rotate(CONTINUOUS)>>,
       background |-> <<64, 64, 128>>, position |-> <<0, 10, 25>>],
      [meshes |-> <<MtlFolder>>, lights |-> <<>>,
       behaviors |-> <<SwapMesh(STARTUP)>>,
       background |-> <<0, 0, 0>>, position |-> <<0, 0, 0>>],
      [meshes |-> <<BadImgFolder>>, lights |-> <<>>,
       behaviors |-> <<Rotate(CONTINUOUS), SwapMesh(CONTINUOUS)>>,
       background |-> <<0, 0, 0>>, position |-> <<0, 0, 0>>],
      [meshes |-> <<>>, lights |-> <<>>, behaviors |-> <<>>,
       background |-> <<30, 30, 30>>, position |-> <<0, 0, 0>>] }

\* One [meshes] line: the mesh is loaded and added to the display twice
\* (before and after c3d_meshabs places it).
AddTwice(D, lm) == [d |-> c3d_meshadd(c3d_meshadd(D, lm.m), lm.m), h |-> lm.h]

RECURSIVE SceneMeshes(_, _, _)
SceneMeshes(r, folders, i) ==
    IF i > Len(folders) THEN r
    ELSE SceneMeshes(AddTwice(r.d, c3d_loadmesh(r.h, folders[i])), folders, i + 1)

RECURSIVE SceneLights(_, _, _)
SceneLights(D, lights, i) ==
    IF i > Len(lights) THEN D
    ELSE SceneLights(c3d_lightadd(D, lights[i]), lights, i + 1)

RECURSIVE SceneBehaviors(_, _, _)
SceneBehaviors(D, bs, i) ==
    IF i > Len(bs) THEN D
    ELSE SceneBehaviors(c3d_behavioradd(D, bs[i].func, bs[i].type, bs[i].args), bs, i + 1)

\* The sections of the file, read into the display r.d that was reset.
SceneSections(r, scene) ==
    [d |-> SceneBehaviors(
             SceneLights([r.d EXCEPT !.camera.pos = scene.position,
                                     !.background_color = scene.background],
                         scene.lights, 1),
             scene.behaviors, 1),
     h |-> r.h]

\* c3d_loadscene on a file that opens.
c3d_loadscene(D, h, scene) ==
    SceneSections(SceneMeshes(c3d_resetdisplay(D, h), scene.meshes, 1), scene)

\* c3d_loadobjfolder
FolderMesh(D, lm) == [d |-> c3d_meshadd(D, lm.m), h |-> lm.h]

c3d_loadobjfolder(D, h, folder) ==
    FolderMesh(ResetFields(D), c3d_loadmesh(FreeTris(h, D.meshes, 1), folder))

\* A value stored in a c3d_intus (unsigned short) field.
UShort(n) == n % 65536

\* c3d_winsize when the console reports a buffer that leaves WinWidth
\* columns and WinHeight rows to the display.
correction_factor == 5
c3d_winsize == [width |-> WinWidth + correction_factor, height |-> WinHeight + correction_factor]

\* c3d_auto_winres: the display takes the size of the console less the
\* correction.  The aspect goes to the cam the caller passed, which in main
\* is not the display's camera.
c3d_auto_winres(D, size) ==
    [D EXCEPT !.display_width = UShort(size.width - correction_factor),
              !.display_height = UShort(size.height - correction_factor)]

\* (size.width - correction_factor) / (size.height - correction_factor) is a
\* division of ints: by zero it ends the process.
AspectDivides(size) == size.height - correction_factor # 0

(***************************************************************************)
(* The display over its life: loads, resets and frames, in any order.      *)
(* g records what the calls did:                                           *)
(*   call      the last call made ("exit" once the process has ended)      *)
(*   loads     loads and resets made so far                                *)
(*   frames    c3d_update calls made so far                                *)
(*   updates   c3d_update calls since frame_count was last set to 0        *)
(*   runs      runs[i], calls of behaviour i over those updates            *)
(*   first     first[i], the update (from 1) that first called behaviour i *)
(*   ran       ran[i], calls of behaviour i in the last update             *)
(*   frame     the buffers the last update allocated                       *)
(*   owned     what the meshes owned before the last c3d_resetdisplay      *)
(*   released  the live allocations when that c3d_resetdisplay returned    *)
(***************************************************************************)
NoIO == [fn |-> "none"]

Zeros(n) == [i \in 1..n |-> 0]

InitDisplay ==
    c3d_initdisplay(c3d_initcam(<<0, 0, 0>>, ResetFov, 1), WinWidth, WinHeight, <<0, 0, 0>>)

Init ==
    /\ d = InitDisplay
    /\ heap = EmptyHeap
    /\ g = [call |-> "init", loads |-> 0, frames |-> 0, updates |-> 0,
            runs |-> <<>>, first |-> <<>>, ran |-> <<>>, frame |-> {},
            owned |-> {}, released |-> {}]
    /\ io = NoIO

Running == g.call # "exit"

\* A call returns r.d and r.h and leaves the history G; or the process ends
\* in it: by exit(), or, once a block has been freed twice, by a crash.
Return(r, G) ==
    \/ /\ ~r.h.exited
       /\ d' = r.d
       /\ heap' = r.h
       /\ g' = G
    \/ /\ r.h.exited \/ r.h.dfree # {}
       /\ g' = [g EXCEPT !.call = "exit"]
       /\ UNCHANGED <<d, heap>>

\* The history after a call that began with c3d_resetdisplay: r is what the
\* call returned, released the heap as c3d_resetdisplay left it.
AfterReset(call, r, released) ==
    [g EXCEPT !.call = call, !.loads = @ + 1, !.updates = 0,
              !.runs = Zeros(Len(r.d.behaviors)), !.first = Zeros(Len(r.d.behaviors)),
              !.ran = Zeros(Len(r.d.behaviors)),
              !.owned = Owned(d, heap), !.released = released.live]

ResetReturn(call, r) == Return(r, AfterReset(call, r, FreeTris(heap, d.meshes, 1)))

ResetDisplay ==
    /\ Running /\ g.loads < MaxLoads
    /\ \E r \in {c3d_resetdisplay(d, heap)} : ResetReturn("c3d_resetdisplay", r)
    /\ UNCHANGED io

LoadScene ==
    /\ Running /\ g.loads < MaxLoads
    /\ \E scene \in Scenes :
          \E r \in {c3d_loadscene(d, heap, scene)} : ResetReturn("c3d_loadscene", r)
    /\ UNCHANGED io

\* c3d_loadscene on a path that does not open: it returns at once.
LoadSceneMissing ==
    /\ Running /\ g.loads < MaxLoads
    /\ g' = [g EXCEPT !.call = "c3d_loadscene: no file", !.loads = @ + 1]
    /\ UNCHANGED <<d, heap, io>>

LoadObjFolder ==
    /\ Running /\ g.loads < MaxLoads
    /\ \E folder \in MenuFolders :
          \E r \in {c3d_loadobjfolder(d, heap, folder)} : ResetReturn("c3d_loadobjfolder", r)
    /\ UNCHANGED io

AutoWinres ==
    /\ Running
    /\ AspectDivides(c3d_winsize)
    /\ d' = c3d_auto_winres(d, c3d_winsize)
    /\ d' # d
    /\ g' = [g EXCEPT !.call = "c3d_auto_winres"]
    /\ UNCHANGED <<heap, io>>

UpdateReturn(r) ==
    Return(r, [g EXCEPT !.call = "c3d_update", !.frames = @ + 1, !.updates = @ + 1,
                        !.runs = [i \in 1..Len(r.ran) |-> @[i] + r.ran[i]],
                        !.first = [i \in 1..Len(r.ran) |->
                                     IF @[i] = 0 /\ r.ran[i] > 0 THEN g.updates + 1 ELSE @[i]],
                        !.ran = r.ran, !.frame = r.frame])

Update ==
    /\ Running /\ g.frames < MaxFrames
    /\ \E r \in {c3d_update(d, heap)} : UpdateReturn(r)
    /\ UNCHANGED io

Next ==
    \/ ResetDisplay
    \/ LoadScene
    \/ LoadSceneMissing
    \/ LoadObjFolder
    \/ AutoWinres
    \/ Update

Spec == Init /\ [][Next]_vars

(***************************************************************************)
(* Properties of the display over its life (specification Spec).           *)
(***************************************************************************)
ResetCalls == {"c3d_resetdisplay", "c3d_loadscene", "c3d_loadobjfolder"}

\* C1: over the updates made since the display was last loaded or reset,
\* every STARTUP behaviour has been called exactly once, in the first
\* update, and every CONTINUOUS behaviour exactly once in every update.
C1_BehaviorSchedule ==
    \A i \in 1..Len(d.behaviors) :
        /\ d.behaviors[i].type = STARTUP =>
              /\ g.runs[i] = IF g.updates > 0 THEN 1 ELSE 0
              /\ g.first[i] = g.runs[i]
              /\ g.call = "c3d_update" => g.ran[i] = IF g.updates = 1 THEN 1 ELSE 0
        /\ d.behaviors[i].type = CONTINUOUS =>
              /\ g.runs[i] = g.updates
              /\ g.call = "c3d_update" => g.ran[i] = 1

\* A second update has returned on a display that holds a STARTUP and a
\* CONTINUOUS behaviour.
C1_Witness ==
    /\ g.call = "c3d_update" /\ g.updates = 2
    /\ \E i \in 1..Len(d.behaviors) : d.behaviors[i].type = STARTUP /\ g.runs[i] = 1
    /\ \E i \in 1..Len(d.behaviors) : d.behaviors[i].type = CONTINUOUS /\ g.runs[i] = 2

\* C5: when c3d_update has returned, none of the buffers it allocated for
\* the frame (the rows, the row arrays, the composer's output buffer) is
\* still live.
C5_FrameBuffersFreed == g.call = "c3d_update" => g.frame \cap heap.live = {}

\* C6: when c3d_resetdisplay has returned, nothing that a mesh of the
\* display owned before the call (triangle array, material, texture) is
\* still live, and the display holds no mesh.
C6_ResetReleasesOwned ==
    /\ g.call \in ResetCalls => g.owned \cap g.released = {}
    /\ g.call = "c3d_resetdisplay" => d.meshes = <<>>

\* C15: an update in which a swapmesh_id behaviour ran on an existing mesh
\* leaves the mesh list as long as it was.
C15_SwapMeshKeepsLength ==
    [][(/\ g'.call = "c3d_update" /\ g'.frames = g.frames + 1
        /\ mesh_count(d) > 0
        /\ \E i \in 1..Len(d.behaviors) :
              d.behaviors[i].func = "swapmesh_id" /\ g'.ran[i] > 0)
       => mesh_count(d') = mesh_count(d)]_vars

\* C25: every light the display holds has its colour components between 0
\* and 1 (LightOne), whichever call stored it.
C25_LightColorsNormalized ==
    \A i \in 1..Len(d.lights) :
        \A k \in 1..3 : d.lights[i].color[k] >= 0 /\ d.lights[i].color[k] <= LightOne

\* C29: no two entries of the mesh list hold the same triangle array, and
\* no block has been freed that was not live.
C29_NoSharedTris ==
    /\ \A i \in 1..Len(d.meshes) : \A j \in 1..Len(d.meshes) :
          (i < j /\ d.meshes[i].tris # NULL) => d.meshes[i].tris # d.meshes[j].tris
    /\ heap.dfree = {}

\* C30: when c3d_resetdisplay has returned, the display holds no mesh, no
\* light and no behaviour, and its frame count is 0.
C30_ResetClearsCounts ==
    g.call = "c3d_resetdisplay" =>
        /\ mesh_count(d) = 0 /\ light_count(d) = 0 /\ behavior_count(d) = 0
        /\ d.frame_count = 0

\* C27: a c3d_update call on a display that holds no behaviour leaves every
\* field of the display other than frame_count as it was (meshes, lights,
\* camera, size, background colour, running).
C27_UpdateKeepsDisplay ==
    [][(/\ g'.call = "c3d_update" /\ g'.frames = g.frames + 1
        /\ behavior_count(d) = 0)
       => [d' EXCEPT !.frame_count = d.frame_count] = d]_vars

\* C27 witness: the second update has returned on a display that holds the
\* mesh of a folder loaded with c3d_loadobjfolder, and no behaviour.
C27_Witness ==
    /\ g.call = "c3d_update" /\ g.updates = 2
    /\ behavior_count(d) = 0
    /\ mesh_count(d) > 0
    /\ d.frame_count = 2

(***************************************************************************)
(* The size of the display: c3d_initdisplay with a size the caller chose,  *)
(* then c3d_resetdisplay and c3d_auto_winres in any order, the console     *)
(* reporting any of the sizes below.                                       *)
(***************************************************************************)
ConsoleWidths == 3 .. (WinWidth + correction_factor)
ConsoleHeights == 4 .. (WinHeight + correction_factor)

InitSize ==
    /\ \E w \in {1, WinWidth} : \E h \in {1, WinHeight} :
          d = c3d_initdisplay(c3d_initcam(<<0, 0, 0>>, ResetFov, 1), w, h, <<0, 0, 0>>)
    /\ heap = EmptyHeap
    /\ g = [call |-> "c3d_initdisplay", events |-> 0]
    /\ io = NoIO

SizeReset ==
    /\ g.call # "exit" /\ g.events < MaxEvents
    /\ d' = c3d_resetdisplay(d, heap).d
    /\ heap' = c3d_resetdisplay(d, heap).h
    /\ g' = [call |-> "c3d_resetdisplay", events |-> g.events + 1]
    /\ UNCHANGED io

SizeAutoWinres ==
    /\ g.call # "exit" /\ g.events < MaxEvents
    /\ \E w \in ConsoleWidths : \E h \in ConsoleHeights :
          /\ d' = c3d_auto_winres(d, [width |-> w, height |-> h])
          /\ g' = [call |-> IF AspectDivides([width |-> w, height |-> h])
                            THEN "c3d_auto_winres" ELSE "exit",
                   events |-> g.events + 1]
    /\ UNCHANGED <<heap, io>>

NextSize == SizeReset \/ SizeAutoWinres

SpecSize == InitSize /\ [][NextSize]_vars

\* C11: while the process runs, the display is at least one column wide and
\* one row high.
C11_SizeAtLeastOne ==
    g.call # "exit" => d.display_width >= 1 /\ d.display_height >= 1

(***************************************************************************)
(* Input handlers.  dt is the frame time in units of 0.5 s, camera.speed   *)
(* is held in tenths, so dt * speed is a distance in units of 1/20, a      *)
(* quarter of the unit of length; positions are rounded to the unit.       *)
(***************************************************************************)
\* a / b rounded to the nearest integer, b > 0
RDiv(a, b) == Sign(a) * ((2 * Abs(a) + b) \div (2 * b))

\* sqrt, rounded down
Isqrt(n) == CHOOSE r \in 0..200 : r * r <= n /\ (r + 1) * (r + 1) > n

\* The length that c3d_vec3normalize divides by (1 where it leaves the
\* zero vector alone).
NormLen(v) ==
    IF v[1] * v[1] + v[2] * v[2] + v[3] * v[3] = 0 THEN 1
    ELSE Isqrt(v[1] * v[1] + v[2] * v[2] + v[3] * v[3])

\* pos += normalize(dir) * speed
Moved(D, dir, speed) ==
    [D EXCEPT !.camera.pos = [i \in 1..3 |-> @[i] + RDiv(dir[i] * speed, 4 * NormLen(dir))]]

Row(M, i) == <<M[i][1], M[i][2], M[i][3]>>
Neg(v) == <<-v[1], -v[2], -v[3]>>

\* The key tests of c3d_k_handle, in the order of the code.
KeyW(D, keys, speed) ==
    IF "W" \in keys THEN Moved(D, Neg(Row(D.camera.matrot, 3)), speed) ELSE D
KeyS(D, keys, speed) ==
    IF "S" \in keys THEN Moved(D, Row(D.camera.matrot, 3), speed) ELSE D
KeyA(D, keys, speed) ==
    IF "A" \in keys THEN Moved(D, Neg(Row(D.camera.matrot, 1)), speed) ELSE D
KeyD(D, keys, speed) ==
    IF "D" \in keys THEN Moved(D, Row(D.camera.matrot, 1), speed) ELSE D
KeySpace(D, keys, speed) ==
    IF "VK_SPACE" \in keys THEN [D EXCEPT !.camera.pos[2] = @ + RDiv(speed, 4)] ELSE D
KeyShift(D, keys, speed) ==
    IF "VK_SHIFT" \in keys THEN [D EXCEPT !.camera.pos[2] = @ - RDiv(speed, 4)] ELSE D
KeyLeft(D, keys, rotationSpeed) ==
    IF "VK_LEFT" \in keys THEN [D EXCEPT !.camera.yaw = @ + rotationSpeed] ELSE D
KeyRight(D, keys, rotationSpeed) ==
    IF "VK_RIGHT" \in keys THEN [D EXCEPT !.camera.yaw = @ - rotationSpeed] ELSE D
KeyUp(D, keys, rotationSpeed) ==
    IF "VK_UP" \in keys THEN [D EXCEPT !.camera.pitch = @ + rotationSpeed] ELSE D
KeyDown(D, keys, rotationSpeed) ==
    IF "VK_DOWN" \in keys THEN [D EXCEPT !.camera.pitch = @ - rotationSpeed] ELSE D
KeyI(D, keys) ==
    IF "I" \in keys THEN [D EXCEPT !.camera.speed = @ + 1] ELSE D
KeyO(D, keys) ==
    IF "O" \in keys THEN [D EXCEPT !.camera.speed = @ - (IF @ >= 1 THEN 1 ELSE 0)] ELSE D
\* color is what the three rand() % 256 gave
KeyReturn(D, keys, color) ==
    IF "VK_RETURN" \in keys \/ "VK_LBUTTON" \in keys
    THEN c3d_lightadd(D, [position |-> D.camera.pos, color |-> color,
                          brightness |-> 1, radius |-> 5])
    ELSE D

c3d_k_handle(D, keys, dt, color) ==
    KeyReturn(
      KeyO(KeyI(
        KeyDown(KeyUp(KeyRight(KeyLeft(
          KeyShift(KeySpace(
            KeyD(KeyA(KeyS(KeyW(D, keys, dt * D.camera.speed),
                           keys, dt * D.camera.speed),
                      keys, dt * D.camera.speed),
                 keys, dt * D.camera.speed),
            keys, dt * D.camera.speed), keys, dt * D.camera.speed),
          keys, dt), keys, dt), keys, dt), keys, dt),
        keys), keys),
      keys, color)

\* 1.5 rad, in units of 0.5 rad
PitchLimit == 3

C3D_CLAMP(var, x, y) == IF var > y THEN y ELSE IF var < x THEN x ELSE var

\* The cursor moved by (dx, dy) (units of 50 pixels: 0.5 rad) since p0 was
\* read; ok is what GetCursorPos returned.
MouseLook(D, dx, dy, ok) ==
    IF ok
    THEN [D EXCEPT !.camera.yaw = @ - dx,
                   !.camera.pitch = C3D_CLAMP(@ - dy, -PitchLimit, PitchLimit)]
    ELSE D

Rebuild(D) ==
    [D EXCEPT !.camera.matrot =
                  c3d_mat4mul(c3d_mat4rtx(D.camera.pitch), c3d_mat4rty(D.camera.yaw))]

c3d_m_handle(D, dx, dy, ok) == Rebuild(MouseLook(D, dx, dy, ok))

(***************************************************************************)
(* The handlers in any order on a display whose camera c3d_initcam built.  *)
(* g.initDone is c3d_getdeltatime's flag: its first call returns 0.        *)
(***************************************************************************)
KeySets ==
    { {}, {"W"}, {"S"}, {"A"}, {"D"}, {"VK_SPACE"}, {"VK_SHIFT"}, {"VK_LEFT"},
      {"VK_RIGHT"}, {"VK_UP"}, {"VK_DOWN"}, {"I"}, {"O"}, {"VK_RETURN"},
      {"W", "VK_LEFT"}, {"VK_UP", "VK_LBUTTON"} }

RandColors == { <<0, 0, 0>>, <<255, 128, 7>> }

InitInput ==
    /\ d = c3d_initdisplay(c3d_initcam(<<0, 0, 0>>, ResetFov, 4), WinWidth, WinHeight,
                           <<0, 0, 0>>)
    /\ heap = EmptyHeap
    /\ g = [call |-> "init", events |-> 0, initDone |-> FALSE]
    /\ io = NoIO

KHandle ==
    /\ g.events < MaxEvents
    /\ \E keys \in KeySets, color \in RandColors :
          /\ ("VK_RETURN" \in keys \/ "VK_LBUTTON" \in keys) \/ color = <<0, 0, 0>>
          /\ d' = c3d_k_handle(d, keys, IF g.initDone THEN 1 ELSE 0, color)
    /\ g' = [call |-> "c3d_k_handle", events |-> g.events + 1, initDone |-> TRUE]
    /\ UNCHANGED <<heap, io>>

MHandle ==
    /\ g.events < MaxEvents
    /\ \E dx \in -1..1, dy \in -1..1, ok \in BOOLEAN :
          /\ ok \/ (dx = 0 /\ dy = 0)
          /\ d' = c3d_m_handle(d, dx, dy, ok)
    /\ g' = [g EXCEPT !.call = "c3d_m_handle", !.events = @ + 1]
    /\ UNCHANGED <<heap, io>>

NextInput ==
    \/ KHandle
    \/ MHandle

SpecInput == InitInput /\ [][NextInput]_vars

\* C10: when c3d_k_handle or c3d_m_handle has returned, camera.matrot is
\* Rx(camera.pitch) . Ry(camera.yaw) for the pitch and yaw then stored.
C10_MatrotFollowsAngles ==
    g.call \in {"c3d_k_handle", "c3d_m_handle"} =>
        d.camera.matrot = c3d_mat4mul(c3d_mat4rtx(d.camera.pitch), c3d_mat4rty(d.camera.yaw))

(***************************************************************************)
(* Texture sampling.  A colour channel c in [0, 1] is the integer 510 * c, *)
(* and u, v are held in halves.                                            *)
(***************************************************************************)
ColorOne == 510
White == <<ColorOne, ColorOne, ColorOne>>

\* The picture that stb_image decodes: 2 x 2 texels, each byte b stored as
\* b / 255.
ImageBytes == << <<255, 0, 0>>, <<0, 255, 0>>, <<0, 0, 255>>, <<200, 100, 50>> >>

\* width, height and data[index] of the texels at p
TexWidth(h, p) == IF h.img[p] = "generic" THEN 120 ELSE 2
TexHeight(h, p) == IF h.img[p] = "generic" THEN 120 ELSE 2
TexData(h, p, index) ==
    IF h.img[p] = "generic"
    THEN IF (((index % 120) \div 4) + ((index \div 120) \div 4)) % 2 = 0
         THEN <<ColorOne \div 2, 0, ColorOne \div 2>>
         ELSE <<0, 0, 0>>
    ELSE [c \in 1..3 |-> (ImageBytes[index + 1][c] * ColorOne) \div 255]

\* c3d_texsample on a texture struct that exists.
TexIndex(h, p, u, v) ==
    (((2 - C3D_CLAMP(v, 0, 2)) * (TexHeight(h, p) - 1)) \div 2) * TexWidth(h, p)
        + (C3D_CLAMP(u, 0, 2) * (TexWidth(h, p) - 1)) \div 2

ClampColor(color) == [c \in 1..3 |-> C3D_CLAMP(color[c], 0, ColorOne)]

c3d_texsample(h, tex, u, v) ==
    IF h.tex[tex] = NULL THEN White
    ELSE ClampColor(TexData(h, h.tex[tex], TexIndex(h, h.tex[tex], u, v)))

\* What a call of c3d_texsample gives.  With tex == NULL the read of
\* tex->data is a read through a null pointer: it faults, or it yields a
\* value that is NULL (white is returned) or is dereferenced in turn.
Returned(color) == [fault |-> FALSE, color |-> color]
Fault == [fault |-> TRUE, color |-> <<0, 0, 0>>]

TexSampleOutcomes(h, tex, u, v) ==
    IF tex = NULL THEN {Fault, Returned(White)} ELSE {Returned(c3d_texsample(h, tex, u, v))}

(***************************************************************************)
(* A mesh is loaded from a folder and the rasterizer samples its material. *)
(***************************************************************************)
InitTex ==
    /\ d = InitDisplay
    /\ heap = EmptyHeap
    /\ g = [call |-> "init", loads |-> 0]
    /\ io = NoIO

TexLoad ==
    /\ Running /\ g.loads < MaxLoads
    /\ \E folder \in Folders :
          Return(c3d_loadobjfolder(d, heap, folder),
                 [call |-> "c3d_loadobjfolder", loads |-> g.loads + 1])
    /\ io' = NoIO

\* c3d_rasterize: c3d_texsample(mtl->diffuse_tex, u, v)
TexSample ==
    /\ Running
    /\ \E i \in 1..Len(d.meshes), u \in -1..3, v \in -1..3 :
          \E result \in TexSampleOutcomes(heap, heap.mtl[d.meshes[i].mtl], u, v) :
              io' = [fn |-> "c3d_texsample", tex |-> heap.mtl[d.meshes[i].mtl],
                     u |-> u, v |-> v, result |-> result]
    /\ g' = [g EXCEPT !.call = "c3d_texsample"]
    /\ UNCHANGED <<d, heap>>

NextTex ==
    \/ TexLoad
    \/ TexSample

SpecTex == InitTex /\ [][NextTex]_vars

\* C8: sampling the diffuse texture of a material whose diffuse_tex is NULL,
\* or whose texture has no data, gives white (1, 1, 1) and does not fail.
C8_AbsentTextureIsWhite ==
    (io.fn = "c3d_texsample" /\ (io.tex = NULL \/ heap.tex[io.tex] = NULL)) =>
        io.result = Returned(White)

(***************************************************************************)
(* The composer.  What c3d_render writes to the console is a sequence of   *)
(* tokens [k, a]: the background sequence ESC[48;2;r;g;bm, the cursor-home *)
(* sequence ESC[H, a foreground sequence ESC[38;2;r;g;bm, a glyph (its     *)
(* code point), a newline, the reset sequence ESC[0m.  A COLORREF is the   *)
(* integer 0x00bbggrr.                                                     *)
(***************************************************************************)
RGB(red, green, blue) == red + 256 * green + 65536 * blue
GetRValue(color) == color % 256
GetGValue(color) == (color \div 256) % 256
GetBValue(color) == (color \div 65536) % 256

Space == 32                 \* L' '
C3D_PXCHAR == 9608          \* the full block
NoColor == -1               \* 0xFFFFFFFF, which no RGB() value equals

BgSeq(red, green, blue) == [k |-> "bg", a |-> <<red, green, blue>>]
HomeSeq == [k |-> "home", a |-> <<>>]
FgSeq(color) == [k |-> "fg", a |-> <<GetRValue(color), GetGValue(color), GetBValue(color)>>]
Glyph(wc) == [k |-> "glyph", a |-> <<wc>>]
Newline == [k |-> "nl", a |-> <<>>]
ResetSeq == [k |-> "reset", a |-> <<>>]

\* A foreground sequence is written for every cell, whatever the last one.
ColorChangedAlways(color, lastColor) == TRUE

\* color != lastColor
ColorChanged(color, lastColor) == color # lastColor

\* The row and cell loops of c3d_render, from cell (y, x) on.
RECURSIVE RenderCells(_, _, _, _, _, _, _)
RenderCells(D, buffer, colorBuffer, y, x, lastColor, out) ==
    IF y > D.display_height THEN out
    ELSE IF x > D.display_width
    THEN RenderCells(D, buffer, colorBuffer, y + 1, 1, lastColor, Append(out, Newline))
    ELSE IF ColorChanged(colorBuffer[y][x], lastColor)
    THEN RenderCells(D, buffer, colorBuffer, y, x + 1, colorBuffer[y][x],
                     out \o <<FgSeq(colorBuffer[y][x]), Glyph(buffer[y][x])>>)
    ELSE RenderCells(D, buffer, colorBuffer, y, x + 1, lastColor,
                     Append(out, Glyph(buffer[y][x])))

c3d_render(D, buffer, colorBuffer) ==
    Append(RenderCells(D, buffer, colorBuffer, 1, 1, NoColor,
                       << BgSeq(C3D_CLAMP(D.background_color[1], 0, 255),
                                C3D_CLAMP(D.background_color[2], 0, 255),
                                C3D_CLAMP(D.background_color[3], 0, 255)),
                          HomeSeq >>),
           ResetSeq)

(***************************************************************************)
(* c3d_render on the frames c3d_update can hand it: a cell is blank, or a  *)
(* pixel of one of two colours.                                            *)
(***************************************************************************)
Cells ==
    { [wc |-> Space, color |-> RGB(0, 0, 0)],
      [wc |-> C3D_PXCHAR, color |-> RGB(255, 0, 0)],
      [wc |-> C3D_PXCHAR, color |-> RGB(0, 51, 0)] }

Backgrounds == { <<0, 0, 0>>, <<300, -5, 128>> }

InitRender ==
    /\ \E bg \in Backgrounds :
          d = c3d_initdisplay(c3d_initcam(<<0, 0, 0>>, ResetFov, 1), FrameCols, FrameRows, bg)
    /\ heap = EmptyHeap
    /\ g = [call |-> "init"]
    /\ \E frame \in [1..FrameRows -> [1..FrameCols -> Cells]] :
          io = [fn |-> "c3d_render",
                buffer |-> [y \in 1..FrameRows |-> [x \in 1..FrameCols |-> frame[y][x].wc]],
                colorBuffer |-> [y \in 1..FrameRows |-> [x \in 1..FrameCols |-> frame[y][x].color]],
                out |-> <<>>]

Render ==
    /\ g.call = "init"
    /\ io' = [io EXCEPT !.out = c3d_render(d, io.buffer, io.colorBuffer)]
    /\ heap' = RenderAlloc(heap)
    /\ g' = [call |-> "c3d_render"]
    /\ UNCHANGED d

NextRender == Render

SpecRender == InitRender /\ [][NextRender]_vars

\* The output without its foreground sequences.
Body(out) == SelectSeq(out, LAMBDA t : t.k # "fg")

\* The number of glyphs in out[1..p]: the cell that the glyph at p shows.
RECURSIVE GlyphsUpTo(_, _)
GlyphsUpTo(out, p) ==
    IF p = 0 THEN 0
    ELSE GlyphsUpTo(out, p - 1) + (IF out[p].k = "glyph" THEN 1 ELSE 0)

\* The last foreground sequence in out[1..p], or the empty tuple.
RECURSIVE ForegroundAt(_, _)
ForegroundAt(out, p) ==
    IF p = 0 THEN <<>>
    ELSE IF out[p].k = "fg" THEN out[p].a
    ELSE ForegroundAt(out, p - 1)

\* The colour of the n-th cell of the frame, row by row.
CellColor(n) ==
    LET color == io.colorBuffer[((n - 1) \div FrameCols) + 1][((n - 1) % FrameCols) + 1]
    IN <<GetRValue(color), GetGValue(color), GetBValue(color)>>

\* C7: what c3d_render emits for a W x H frame is, in order, one background
\* sequence, one cursor-home sequence, H rows of W glyphs and a newline,
\* and one reset sequence; a foreground sequence stands immediately before
\* a glyph exactly when the cell's colour differs from the last foreground
\* colour emitted (always before the first cell), so every glyph is
\* emitted under its cell's colour.
C7_RenderOrder ==
    g.call = "c3d_render" =>
        /\ Len(Body(io.out)) = 2 + FrameRows * (FrameCols + 1) + 1
        /\ Body(io.out)[1] = BgSeq(C3D_CLAMP(d.background_color[1], 0, 255),
                                  C3D_CLAMP(d.background_color[2], 0, 255),
                                  C3D_CLAMP(d.background_color[3], 0, 255))
        /\ io.out[1].k = "bg" /\ io.out[2].k = "home"
        /\ \A y \in 1..FrameRows :
              /\ \A x \in 1..FrameCols :
                    Body(io.out)[2 + (y - 1) * (FrameCols + 1) + x] = Glyph(io.buffer[y][x])
              /\ Body(io.out)[2 + y * (FrameCols + 1)] = Newline
        /\ io.out[Len(io.out)] = ResetSeq
        /\ \A p \in 1..Len(io.out) :
              /\ io.out[p].k = "fg" => io.out[p + 1].k = "glyph"
              /\ io.out[p].k = "glyph" =>
                    /\ ForegroundAt(io.out, p) = CellColor(GlyphsUpTo(io.out, p))
                    /\ io.out[p - 1].k = "fg" <=>
                           ForegroundAt(io.out, p - 2) # CellColor(GlyphsUpTo(io.out, p))

\* A frame was rendered in which a colour is kept from one cell to the next
\* and then changes: fewer foreground sequences than cells, more than one.
C7_Witness ==
    /\ g.call = "c3d_render"
    /\ Len(io.out) - Len(Body(io.out)) \in 2..(FrameRows * FrameCols - 1)
    /\ io.colorBuffer[1][1] = io.colorBuffer[1][2]

(***************************************************************************)
(* The size of c3d_render's output.  output_buffer holds                   *)
(* display_height * (display_width * 30 + 10) wide characters; buffer_pos  *)
(* is the number of wide characters written into it (each swprintf writes  *)
(* one terminating L'\\0' more, at buffer_pos).  The display is of any     *)
(* size from 1 x 1 to FrameCols x FrameRows.                               *)
(***************************************************************************)
\* The characters that %d prints for a number in 0..255
Digits(n) == IF n < 10 THEN 1 ELSE IF n < 100 THEN 2 ELSE 3

\* The wide characters of a piece of the output: "\x1b[48;2;%d;%d;%dm",
\* "\x1b[H", "\x1b[38;2;%d;%d;%dm", a glyph, L'\n', "\x1b[0m"
Chars(t) ==
    CASE t.k \in {"bg", "fg"} -> 7 + Digits(t.a[1]) + 1 + Digits(t.a[2]) + 1 + Digits(t.a[3]) + 1
      [] t.k = "home" -> 3
      [] t.k = "reset" -> 4
      [] OTHER -> 1

RECURSIVE buffer_pos(_, _)
buffer_pos(out, n) == IF n = 0 THEN 0 ELSE buffer_pos(out, n - 1) + Chars(out[n])

\* output_buffer_size / sizeof(wchar_t)
OutputChars(D) == D.display_height * (D.display_width * 30 + 10)

\* Background colours within 0..255
OutBackgrounds == { <<0, 0, 0>>, <<255, 0, 128>>, <<100, 100, 100>> }

InitOut ==
    /\ \E bg \in OutBackgrounds, width \in 1..FrameCols, height \in 1..FrameRows :
          /\ d = c3d_initdisplay(c3d_initcam(<<0, 0, 0>>, ResetFov, 1), width, height, bg)
          /\ \E frame \in [1..height -> [1..width -> Cells]] :
                io = [fn |-> "c3d_render",
                      buffer |-> [y \in 1..height |-> [x \in 1..width |-> frame[y][x].wc]],
                      colorBuffer |-> [y \in 1..height |-> [x \in 1..width |-> frame[y][x].color]],
                      out |-> <<>>, pos |-> 0]
    /\ heap = EmptyHeap
    /\ g = [call |-> "init"]

RenderOut ==
    /\ g.call = "init"
    /\ LET out == c3d_render(d, io.buffer, io.colorBuffer)
       IN io' = [io EXCEPT !.out = out, !.pos = buffer_pos(out, Len(out))]
    /\ heap' = RenderAlloc(heap)
    /\ g' = [call |-> "c3d_render"]
    /\ UNCHANGED d

NextOut == RenderOut

SpecOut == InitOut /\ [][NextOut]_vars

\* C28: for a display of width and height at least 1 and colours within
\* 0..255, the number of wide characters c3d_render has written is at most
\* the number output_buffer was allocated for.
C28_OutputFits == g.call = "c3d_render" => io.pos <= OutputChars(d)

(***************************************************************************)
(* Vertices and clipping.  A triangle holds, for each corner, the          *)
(* position, the normal and the UV as integer numerators and, beside them, *)
(* the corner's denominator (qx, qy, qz; 1 for a triangle of a mesh).  A   *)
(* vex holds the numerators of clip, space, normal and uv over its q.      *)
(***************************************************************************)
\* A cross product that does not change sign when its arguments are
\* exchanged.
CrossSymmetric(a, b) ==
    <<a[2] * b[3] + a[3] * b[2], a[3] * b[1] + a[1] * b[3], a[1] * b[2] + a[2] * b[1]>>

c3d_vec3cross(a, b) ==
    <<a[2] * b[3] - a[3] * b[2], a[3] * b[1] - a[1] * b[3], a[1] * b[2] - a[2] * b[1]>>

c3d_vec3dot(A, B) == A[1] * B[1] + A[2] * B[2] + A[3] * B[3]

\* A x q, for the vector A / q
c3d_mat4vec4(A, q, B) ==
    [i \in 1..4 |-> B[i][1] * A[1] + B[i][2] * A[2] + B[i][3] * A[3] + B[i][4] * q]

\* A lerp that interpolates the clip coordinates alone.
LerpClipOnly(A, B, tp, tq) ==
    [clip |-> [i \in 1..4 |-> A.clip[i] * tq + tp * (B.clip[i] - A.clip[i])],
     space |-> [i \in 1..3 |-> A.space[i] * tq],
     normal |-> [i \in 1..3 |-> A.normal[i] * tq],
     uv |-> [i \in 1..2 |-> A.uv[i] * tq],
     q |-> tq]

\* A + t * (B - A) for t = tp / tq, of two vertices of the mesh (q = 1)
c3d_lerp(A, B, tp, tq) ==
    [clip |-> [i \in 1..4 |-> A.clip[i] * tq + tp * (B.clip[i] - A.clip[i])],
     space |-> [i \in 1..3 |-> A.space[i] * tq + tp * (B.space[i] - A.space[i])],
     normal |-> [i \in 1..3 |-> A.normal[i] * tq + tp * (B.normal[i] - A.normal[i])],
     uv |-> [i \in 1..2 |-> A.uv[i] * tq + tp * (B.uv[i] - A.uv[i])],
     q |-> tq]

\* t = Ad / (Ad - Bd), in lowest terms with a positive denominator
LerpAt(A, B, Ad, Bd) ==
    c3d_lerp(A, B,
             Sign(Ad - Bd) * (Ad \div Gcd(Ad, Ad - Bd)),
             Sign(Ad - Bd) * ((Ad - Bd) \div Gcd(Ad, Ad - Bd)))

c3d_nearintersect(A, B) == LerpAt(A, B, A.clip[3] + A.clip[4], B.clip[3] + B.clip[4])

c3d_innear(v) == v.clip[3] + v.clip[4] >= 0

\* A turn that leaves out next when the edge comes back inside.
ClipEdgeCutOnly(current, next) ==
    (IF c3d_innear(current) /\ c3d_innear(next) THEN <<next>> ELSE <<>>)
    \o (IF c3d_innear(current) # c3d_innear(next)
        THEN <<c3d_nearintersect(current, next)>> ELSE <<>>)

\* What one turn of c3d_suthhodgman's loop appends to temp.
ClipEdge(current, next) ==
    (IF c3d_innear(current) /\ c3d_innear(next) THEN <<next>> ELSE <<>>)
    \o (IF c3d_innear(current) /\ ~c3d_innear(next)
        THEN <<c3d_nearintersect(current, next)>> ELSE <<>>)
    \o (IF ~c3d_innear(current) /\ c3d_innear(next)
        THEN <<c3d_nearintersect(current, next), next>> ELSE <<>>)

RECURSIVE SuthHodgmanFrom(_, _, _)
SuthHodgmanFrom(inVerts, i, temp) ==
    IF i > Len(inVerts) THEN temp
    ELSE SuthHodgmanFrom(inVerts, i + 1,
                         temp \o ClipEdge(inVerts[i], inVerts[(i % Len(inVerts)) + 1]))

\* A clipper that hands back the polygon it was given.
SuthHodgmanKeep(inVerts) == inVerts

c3d_suthhodgman(inVerts) == SuthHodgmanFrom(inVerts, 1, <<>>)

\* The calls of c3d_nearintersect that c3d_suthhodgman makes from edge i on:
\* the two ends of the edge and the vertex returned.
RECURSIVE NearIntersections(_, _)
NearIntersections(inVerts, i) ==
    IF i > Len(inVerts) THEN <<>>
    ELSE (IF c3d_innear(inVerts[i]) # c3d_innear(inVerts[(i % Len(inVerts)) + 1])
          THEN <<[A |-> inVerts[i], B |-> inVerts[(i % Len(inVerts)) + 1],
                  R |-> c3d_nearintersect(inVerts[i], inVerts[(i % Len(inVerts)) + 1])]>>
          ELSE <<>>)
         \o NearIntersections(inVerts, i + 1)

\* The vex of corner i of t
CornerVex(t, i, matcam) ==
    [clip |-> c3d_mat4vec4(<<t.vx, t.vy, t.vz>>[i], 1, matcam),
     space |-> <<t.vx, t.vy, t.vz>>[i],
     normal |-> <<t.nvx, t.nvy, t.nvz>>[i],
     uv |-> <<t.uvx, t.uvy, t.uvz>>[i],
     q |-> 1]

\* The triangle of out[a], out[b], out[c]
FanTri(out, a, b, c) ==
    [vx |-> out[a].space, vy |-> out[b].space, vz |-> out[c].space,
     nvx |-> out[a].normal, nvy |-> out[b].normal, nvz |-> out[c].normal,
     uvx |-> out[a].uv, uvy |-> out[b].uv, uvz |-> out[c].uv,
     qx |-> out[a].q, qy |-> out[b].q, qz |-> out[c].q]

ClippedTris(out) ==
    IF Len(out) < 3 THEN <<>>
    ELSE IF Len(out) = 3 THEN <<FanTri(out, 1, 2, 3)>>
    ELSE IF Len(out) = 4 THEN <<FanTri(out, 1, 2, 3), FanTri(out, 1, 3, 4)>>
    ELSE <<>>

\* c3d_nearclip: the triangles written to clippedtri (their number is the
\* value returned).
c3d_nearclip(t, matcam) ==
    ClippedTris(c3d_suthhodgman([i \in 1..3 |-> CornerVex(t, i, matcam)]))

\* A vector divided by the greatest common divisor of its components: the
\* same direction, so that products stay small.
Reduced(v) ==
    IF v[1] = 0 /\ v[2] = 0 /\ v[3] = 0 THEN v
    ELSE [i \in 1..3 |-> v[i] \div Gcd(Gcd(v[1], v[2]), v[3])]

\* The sign of dot in c3d_backface: u, v and view are taken times the
\* (positive) denominators of the corners.
BackfaceDot(t, pos) ==
    c3d_vec3dot(
        Reduced(c3d_vec3cross(
            Reduced([i \in 1..3 |-> t.vy[i] * t.qx - t.vx[i] * t.qy]),
            Reduced([i \in 1..3 |-> t.vz[i] * t.qx - t.vx[i] * t.qz]))),
        Reduced([i \in 1..3 |-> t.vx[i] - pos[i] * t.qx]))

c3d_backface(t, pos) == BackfaceDot(t, pos) >= 0

(***************************************************************************)
(* The triangle loop of c3d_update, for one triangle of a mesh.            *)
(***************************************************************************)
\* matcam = matproj . (matrot . camtranslate)
MatCam(D) ==
    c3d_mat4mul(c3d_mat4prj(D.camera.fnear, D.camera.ffar, D.camera.fov, D.camera.aspect),
                c3d_mat4mul(D.camera.matrot,
                            c3d_mat4tra(-D.camera.pos[1], -D.camera.pos[2], -D.camera.pos[3])))

\* x / w < k and x / w > k in floats, for k = -1 or 1: with w = 0 the
\* quotient is -inf, +inf or NaN, and a comparison with NaN is false.
NdcLess(x, w, k) ==
    IF w > 0 THEN x < k * w ELSE IF w < 0 THEN x > k * w ELSE x < 0
NdcGreater(x, w, k) ==
    IF w > 0 THEN x > k * w ELSE IF w < 0 THEN x < k * w ELSE x > 0

\* The test that skips a triangle whose three corners are beyond one side
\* of the NDC cube.
NdcRejected(c0, c1, c2) ==
    \E i \in 1..3 :
        \/ NdcLess(c0[i], c0[4], -1) /\ NdcLess(c1[i], c1[4], -1) /\ NdcLess(c2[i], c2[4], -1)
        \/ NdcGreater(c0[i], c0[4], 1) /\ NdcGreater(c1[i], c1[4], 1)
               /\ NdcGreater(c2[i], c2[4], 1)

\* The calls of c3d_rasterize for the clipped triangle t: none, or one with
\* the clip coordinates of the three corners.
RasterCalls(D, t, c0, c1, c2) ==
    IF c3d_backface(t, D.camera.pos) \/ NdcRejected(c0, c1, c2) THEN <<>>
    ELSE <<[t |-> t, clip |-> <<c0, c1, c2>>]>>

RECURSIVE DrawClipped(_, _, _, _)
DrawClipped(D, matcam, clipped, c) ==
    IF c > Len(clipped) THEN <<>>
    ELSE RasterCalls(D, clipped[c],
                     c3d_mat4vec4(clipped[c].vx, clipped[c].qx, matcam),
                     c3d_mat4vec4(clipped[c].vy, clipped[c].qy, matcam),
                     c3d_mat4vec4(clipped[c].vz, clipped[c].qz, matcam))
         \o DrawClipped(D, matcam, clipped, c + 1)

UpdateTriangle(D, t) == DrawClipped(D, MatCam(D), c3d_nearclip(t, MatCam(D)), 1)

(***************************************************************************)
(* The clipper, the culling test and the triangle loop on the triangles    *)
(* over six vertices, for a camera as c3d_initcam builds it and for one    *)
(* that c3d_m_handle has turned to pitch 0, yaw 0.                         *)
(***************************************************************************)
Vertices ==
    << [v |-> <<0, 0, -10>>, nv |-> <<0, 0, 5>>, uv |-> <<0, 0>>],
       [v |-> <<5, 0, -5>>, nv |-> <<5, 0, 0>>, uv |-> <<10, 0>>],
       [v |-> <<0, 5, -5>>, nv |-> <<0, 5, 0>>, uv |-> <<0, 10>>],
       [v |-> <<-5, 0, 0>>, nv |-> <<-3, 0, 4>>, uv |-> <<10, 10>>],
       [v |-> <<0, -5, 5>>, nv |-> <<0, -4, 3>>, uv |-> <<5, 5>>],
       [v |-> <<5, 5, 5>>, nv |-> <<3, 4, 0>>, uv |-> <<5, 0>>] >>

MeshTri(a, b, c) ==
    [vx |-> Vertices[a].v, vy |-> Vertices[b].v, vz |-> Vertices[c].v,
     nvx |-> Vertices[a].nv, nvy |-> Vertices[b].nv, nvz |-> Vertices[c].nv,
     uvx |-> Vertices[a].uv, uvy |-> Vertices[b].uv, uvz |-> Vertices[c].uv,
     qx |-> 1, qy |-> 1, qz |-> 1]

\* The same triangle wound the other way.
Reversed(t) ==
    [t EXCEPT !.vy = t.vz, !.vz = t.vy, !.nvy = t.nvz, !.nvz = t.nvy,
              !.uvy = t.uvz, !.uvz = t.uvy, !.qy = t.qz, !.qz = t.qy]

Cameras ==
    { c3d_initcam(<<0, 0, 0>>, ResetFov, 1),
      c3d_initcam(<<0, 0, 5>>, ResetFov, 1),
      c3d_m_handle(InitDisplay, 0, 0, FALSE).camera,
      [c3d_m_handle(InitDisplay, 0, 0, FALSE).camera EXCEPT !.pos = <<0, 0, 5>>],
      [c3d_m_handle(InitDisplay, 0, 0, FALSE).camera EXCEPT !.pos = <<5, 0, 0>>] }

InitClip ==
    /\ \E camera \in Cameras :
          d = c3d_initdisplay(camera, WinWidth, WinHeight, <<0, 0, 0>>)
    /\ heap = EmptyHeap
    /\ g = [call |-> "init"]
    /\ \E a \in 1..Len(Vertices), b \in 1..Len(Vertices), c \in 1..Len(Vertices) :
          /\ a # b /\ b # c /\ a # c
          /\ io = [t |-> MeshTri(a, b, c), clipped |-> <<>>, back |-> <<>>, calls |-> <<>>,
                   poly |-> <<>>, cuts |-> <<>>]

\* c3d_nearclip on io.t; poly is the polygon that its call of
\* c3d_suthhodgman returns, cuts the calls of c3d_nearintersect made in it.
NearClip ==
    /\ io' = [io EXCEPT !.clipped = c3d_nearclip(io.t, MatCam(d)),
                        !.poly = c3d_suthhodgman([i \in 1..3 |-> CornerVex(io.t, i, MatCam(d))]),
                        !.cuts = NearIntersections([i \in 1..3 |-> CornerVex(io.t, i, MatCam(d))], 1)]
    /\ g' = [call |-> "c3d_nearclip"]
    /\ UNCHANGED <<d, heap>>

Backface ==
    /\ io' = [io EXCEPT !.back = <<c3d_backface(io.t, d.camera.pos),
                                   c3d_backface(Reversed(io.t), d.camera.pos)>>]
    /\ g' = [call |-> "c3d_backface"]
    /\ UNCHANGED <<d, heap>>

DrawTriangle ==
    /\ io' = [io EXCEPT !.calls = UpdateTriangle(d, io.t)]
    /\ g' = [call |-> "c3d_update"]
    /\ UNCHANGED <<d, heap>>

NextClip ==
    \/ NearClip
    \/ Backface
    \/ DrawTriangle

SpecClip == InitClip /\ [][NextClip]_vars

\* The corners of the input triangle that are inside the near half-space.
InsideCorners == {i \in 1..3 : c3d_innear(CornerVex(io.t, i, MatCam(d)))}

\* Corner i of triangle t: position, normal, UV and denominator.
Corner(t, i) ==
    << <<t.vx, t.vy, t.vz>>[i], <<t.nvx, t.nvy, t.nvz>>[i], <<t.uvx, t.uvy, t.uvz>>[i],
       <<t.qx, t.qy, t.qz>>[i] >>

\* C3, as the code has it: c3d_nearclip returns one triangle when three or
\* one corners are inside the near half-space, two when two are, none when
\* none is; with three inside, the triangle returned is the input triangle
\* with its corners rotated: output corner i carries input corner i + 1
\* (cyclically).
C3_NearClipCounts ==
    g.call = "c3d_nearclip" =>
        /\ Cardinality(InsideCorners) = 0 => Len(io.clipped) = 0
        /\ Cardinality(InsideCorners) = 1 => Len(io.clipped) = 1
        /\ Cardinality(InsideCorners) = 2 => Len(io.clipped) = 2
        /\ Cardinality(InsideCorners) = 3 =>
              /\ Len(io.clipped) = 1
              /\ \A i \in 1..3 : Corner(io.clipped[1], i) = Corner(io.t, (i % 3) + 1)

\* C3, as stated: with three corners inside, output corner i carries input
\* corner i.
C3_NearClipSameCorners ==
    g.call = "c3d_nearclip" =>
        /\ Cardinality(InsideCorners) = 0 => Len(io.clipped) = 0
        /\ Cardinality(InsideCorners) = 1 => Len(io.clipped) = 1
        /\ Cardinality(InsideCorners) = 2 => Len(io.clipped) = 2
        /\ Cardinality(InsideCorners) = 3 =>
              /\ Len(io.clipped) = 1
              /\ \A i \in 1..3 : Corner(io.clipped[1], i) = Corner(io.t, i)

\* c3d_nearclip has returned for a triangle with all three corners inside.
C3_Witness ==
    /\ g.call = "c3d_nearclip"
    /\ Cardinality(InsideCorners) = 3
    /\ Len(io.clipped) = 1

\* Whether the vertex is on the near plane z + w = 0
OnNearPlane(v) == v.clip[3] + v.clip[4] = 0

\* Whether poly, from place p on, is what the edges from edge i on emit:
\* next for an edge inside, a vertex on the plane for an edge that leaves,
\* a vertex on the plane and then next for an edge that comes back, nothing
\* for an edge outside.
RECURSIVE EmittedFrom(_, _, _, _, _)
EmittedFrom(corners, inside, poly, i, p) ==
    IF i > 3 THEN p = Len(poly) + 1
    ELSE IF i \in inside /\ ((i % 3) + 1) \in inside
    THEN /\ p <= Len(poly) /\ poly[p] = corners[(i % 3) + 1]
         /\ EmittedFrom(corners, inside, poly, i + 1, p + 1)
    ELSE IF i \in inside
    THEN /\ p <= Len(poly) /\ OnNearPlane(poly[p])
         /\ EmittedFrom(corners, inside, poly, i + 1, p + 1)
    ELSE IF ((i % 3) + 1) \in inside
    THEN /\ p + 1 <= Len(poly) /\ OnNearPlane(poly[p])
         /\ poly[p + 1] = corners[(i % 3) + 1]
         /\ EmittedFrom(corners, inside, poly, i + 1, p + 2)
    ELSE EmittedFrom(corners, inside, poly, i + 1, p)

\* C21: for each edge (current, next) c3d_suthhodgman emits next when both
\* ends are inside, the intersection with the plane when the edge leaves,
\* the intersection and then next when it comes back, and nothing when both
\* ends are outside; the polygon of a triangle has 0, 3 or 4 vertices.
C21_EdgeEmission ==
    g.call = "c3d_nearclip" =>
        /\ EmittedFrom([i \in 1..3 |-> CornerVex(io.t, i, MatCam(d))], InsideCorners,
                       io.poly, 1, 1)
        /\ Len(io.poly) \in {0, 3, 4}

\* c3d_suthhodgman has cut a triangle with two corners inside to a quad.
C21_Witness ==
    /\ g.call = "c3d_nearclip"
    /\ Cardinality(InsideCorners) = 2
    /\ Len(io.poly) = 4

\* a / b = c / e, for b and e not zero
SameRatio(a, b, c, e) == a * (e \div Gcd(b, e)) = c * (b \div Gcd(b, e))

\* Whether R = A + (tn / tm) * (B - A) in the attribute f of n components
\* (R is held times R.q)
LerpOf(R, A, B, tn, tm, f, n) ==
    \A k \in 1..n :
        SameRatio(R[f][k], R.q, A[f][k] * tm + tn * (B[f][k] - A[f][k]), tm)

\* The same for the four attributes, with t = tn / tm in [0, 1]
LerpOfEach(c, tn, tm) ==
    /\ Sign(tn) * Sign(tm) >= 0 /\ Abs(tn) <= Abs(tm)
    /\ c.R.q > 0
    /\ LerpOf(c.R, c.A, c.B, tn, tm, "clip", 4)
    /\ LerpOf(c.R, c.A, c.B, tn, tm, "space", 3)
    /\ LerpOf(c.R, c.A, c.B, tn, tm, "normal", 3)
    /\ LerpOf(c.R, c.A, c.B, tn, tm, "uv", 2)

\* t = Ad / (Ad - Bd), as a fraction in lowest terms
LerpOfAll(c, Ad, Bd) ==
    /\ Ad - Bd # 0
    /\ LerpOfEach(c, Ad \div Gcd(Ad, Ad - Bd), (Ad - Bd) \div Gcd(Ad, Ad - Bd))

\* C22: every vertex that clipping creates is lerp(A, B, t) in its clip
\* coordinates, position, normal and UV for the one t = Ad / (Ad - Bd);
\* whenever c3d_suthhodgman calls c3d_nearintersect, Ad - Bd is not zero and
\* 0 <= t <= 1.  The vertices of the polygon that are no corner of the
\* triangle are the vertices so created.
C22_ClippedVertexIsLerp ==
    g.call = "c3d_nearclip" =>
        /\ \A n \in 1..Len(io.cuts) :
              LerpOfAll(io.cuts[n], io.cuts[n].A.clip[3] + io.cuts[n].A.clip[4],
                        io.cuts[n].B.clip[3] + io.cuts[n].B.clip[4])
        /\ \A p \in 1..Len(io.poly) :
              \/ \E i \in 1..3 : io.poly[p] = CornerVex(io.t, i, MatCam(d))
              \/ \E n \in 1..Len(io.cuts) : io.poly[p] = io.cuts[n].R

\* c3d_suthhodgman has created a vertex strictly between the ends of an edge
\* whose normals and UVs differ.
C22_Witness ==
    /\ g.call = "c3d_nearclip"
    /\ \E n \in 1..Len(io.cuts) :
          /\ io.cuts[n].A.clip[3] + io.cuts[n].A.clip[4] # 0
          /\ io.cuts[n].B.clip[3] + io.cuts[n].B.clip[4] # 0
          /\ io.cuts[n].A.normal # io.cuts[n].B.normal
          /\ io.cuts[n].A.uv # io.cuts[n].B.uv

\* C4: every triangle that c3d_update passes to c3d_rasterize has clip-space
\* w > 0 at its three corners.
C4_RasterizedWPositive ==
    \A n \in 1..Len(io.calls) : \A i \in 1..3 : io.calls[n].clip[i][4] > 0

\* C9: for a triangle that is not degenerate and a camera position off its
\* plane, c3d_backface is true for exactly one of the triangle and the
\* triangle with reversed winding.
C9_BackfaceOneWinding ==
    (/\ g.call = "c3d_backface"
     /\ c3d_vec3cross([i \in 1..3 |-> io.t.vy[i] - io.t.vx[i]],
                      [i \in 1..3 |-> io.t.vz[i] - io.t.vx[i]]) # <<0, 0, 0>>
     /\ BackfaceDot(io.t, d.camera.pos) # 0)
        => io.back[1] # io.back[2]

\* c3d_backface was applied to a triangle that faces away from the camera.
C9_Witness ==
    /\ g.call = "c3d_backface"
    /\ BackfaceDot(io.t, d.camera.pos) > 0
    /\ io.back = <<TRUE, FALSE>>

(***************************************************************************)
(* The rasterizer.  NDC x and y are held in halves, so a screen coordinate *)
(* is held in quarters of a pixel and the centre of pixel x is 4x + 2; an  *)
(* edge function is then 16 times the program's.  A depth is a fraction    *)
(* [n, q] with q > 0, or INFINITY.  The barycentric weights e / area enter *)
(* z as a quotient, from which area cancels.                               *)
(***************************************************************************)
c3d_project_vec3vec2(ndc, screen_width, screen_height) ==
    <<(ndc[1] + 2) * screen_width, (2 - ndc[2]) * screen_height>>

c3d_edge(v0, v1, v2) ==
    (v2[1] - v0[1]) * (v1[2] - v0[2]) - (v1[1] - v0[1]) * (v2[2] - v0[2])

INFINITY == [inf |-> TRUE, n |-> 0, q |-> 1]
Depth(n, q) == [inf |-> FALSE, n |-> Sign(q) * n, q |-> Abs(q)]

\* Every fragment is written, whatever the depth buffer holds.
DepthTestAlways(z, depth) == TRUE

\* A test that lets a fragment of equal depth through.
DepthTestOrEqual(z, depth) == depth.inf \/ z.n * depth.q <= depth.n * z.q

\* z < depthBuffer[y][x]
DepthTest(z, depth) == depth.inf \/ z.n * depth.q < depth.n * z.q

\* (int) of a screen coordinate held in quarters of a pixel
PixelOf(c) == Sign(c) * (Abs(c) \div 4)

\* A bounding box that is not cut at the left edge of the display.
MinXUncut(D, pv) == PixelOf(Min2(Min2(pv[1][1], pv[2][1]), pv[3][1]))

\* The bounding box of the three screen points, cut to the display.
MinX(D, pv) == PixelOf(Max2(Min2(Min2(pv[1][1], pv[2][1]), pv[3][1]), 0))
MaxX(D, pv) == PixelOf(Min2(Max2(Max2(pv[1][1], pv[2][1]), pv[3][1]), 4 * (D.display_width - 1)))
MinY(D, pv) == PixelOf(Max2(Min2(Min2(pv[1][2], pv[2][2]), pv[3][2]), 0))
MaxY(D, pv) == PixelOf(Min2(Max2(Max2(pv[1][2], pv[2][2]), pv[3][2]), 4 * (D.display_height - 1)))

\* e[i], the edge function opposite corner i at the centre of pixel (x, y)
Edges(pv, x, y) ==
    << c3d_edge(pv[2], pv[3], <<4 * x + 2, 4 * y + 2>>),
       c3d_edge(pv[3], pv[1], <<4 * x + 2, 4 * y + 2>>),
       c3d_edge(pv[1], pv[2], <<4 * x + 2, 4 * y + 2>>) >>

\* w0 >= 0 && w1 >= 0 && w2 >= 0 inside the bounding box
Covers(D, pv, e, x, y) ==
    /\ x >= MinX(D, pv) /\ x <= MaxX(D, pv) /\ y >= MinY(D, pv) /\ y <= MaxY(D, pv)
    /\ \A i \in 1..3 : e[i] * Sign(c3d_edge(pv[1], pv[2], pv[3])) >= 0

\* denom and the numerator of z, both times area * w0 * w1 * w2
Denom(e, w) == e[1] * w[2] * w[3] + e[2] * w[1] * w[3] + e[3] * w[1] * w[2]
ZNumer(e, w, z) ==
    z[1] * e[1] * w[2] * w[3] + z[2] * e[2] * w[1] * w[3] + z[3] * e[3] * w[1] * w[2]

\* c3d_bphongshade.  A light colour of 1.0 is LightOne, a light radius is in
\* tenths (a world length l is 5 * l, so dist > radius is 2 * dist > radius),
\* normal is a vector of length NormalScale.
NormalScale == 100

c3d_vec3add(a, b) == <<a[1] + b[1], a[2] + b[2], a[3] + b[3]>>
c3d_vec3sub(a, b) == <<a[1] - b[1], a[2] - b[2], a[3] - b[3]>>

\* v / len, as a vector of length NormalScale
Scaled(v, len) ==
    <<RDiv(v[1] * NormalScale, len), RDiv(v[2] * NormalScale, len),
      RDiv(v[3] * NormalScale, len)>>

\* c3d_vec3normalize, to a vector of length NormalScale
c3d_vec3normalize(v) == Scaled(v, NormLen(v))

\* powf(x, n) for x in 0 .. 1 held times NormalScale and a whole n
RECURSIVE Pow(_, _)
Pow(x, n) == IF n <= 0 THEN NormalScale ELSE (x * Pow(x, n - 1)) \div NormalScale

\* Whether the light reaches the shaded point: NdotL > 0 and not
\* dist > L.radius
Lit(L, normal, toLight) ==
    /\ c3d_vec3dot(normal, toLight) > 0
    /\ 4 * c3d_vec3dot(toLight, toLight) <= L.radius * L.radius

\* What a light that reaches the point adds to out_diffuse
DiffuseTerm(L, mtl) ==
    << (mtl.diffuse_color[1] * L.color[1] * L.brightness) \div LightOne,
       (mtl.diffuse_color[2] * L.color[2] * L.brightness) \div LightOne,
       (mtl.diffuse_color[3] * L.color[3] * L.brightness) \div LightOne >>

\* NdotH and attenuation, then what the light adds to out_specular
SpecularOf(L, mtl, c, specular_factor, dist2) ==
    (((((mtl.specular_color[c] * L.color[c] * L.brightness) \div LightOne)
          * specular_factor) \div NormalScale) * (L.radius * L.radius))
        \div (L.radius * L.radius + 4 * dist2)

SpecularBy(L, mtl, specular_factor, dist2) ==
    << SpecularOf(L, mtl, 1, specular_factor, dist2),
       SpecularOf(L, mtl, 2, specular_factor, dist2),
       SpecularOf(L, mtl, 3, specular_factor, dist2) >>

\* halfDir of viewDir and the direction to the light
HalfDir(D, space, toLight) ==
    c3d_vec3normalize(c3d_vec3add(c3d_vec3normalize(c3d_vec3sub(D.camera.pos, space)),
                                  c3d_vec3normalize(toLight)))

SpecularTerm(D, L, normal, space, mtl, toLight) ==
    SpecularBy(L, mtl,
        Pow(Max2(0, c3d_vec3dot(normal, HalfDir(D, space, toLight)) \div NormalScale),
            mtl.shininess),
        c3d_vec3dot(toLight, toLight))

\* The loop over the lights from light n on
RECURSIVE ShadeLights(_, _, _, _, _, _, _)
ShadeLights(D, normal, space, mtl, n, diffuse, specular) ==
    IF n > Len(D.lights) THEN [diffuse |-> diffuse, specular |-> specular]
    ELSE IF ~Lit(D.lights[n], normal, c3d_vec3sub(D.lights[n].position, space))
    THEN ShadeLights(D, normal, space, mtl, n + 1, diffuse, specular)
    ELSE ShadeLights(D, normal, space, mtl, n + 1,
            c3d_vec3add(diffuse, DiffuseTerm(D.lights[n], mtl)),
            c3d_vec3add(specular,
                SpecularTerm(D, D.lights[n], normal, space, mtl,
                             c3d_vec3sub(D.lights[n].position, space))))

Shaded(mtl, sums) ==
    [ambient |-> ClampColor(mtl.ambient_color), diffuse |-> ClampColor(sums.diffuse),
     specular |-> ClampColor(sums.specular)]

c3d_bphongshade(D, normal, space, mtl) ==
    Shaded(mtl, ShadeLights(D, normal, space, mtl, 1, <<0, 0, 0>>, <<0, 0, 0>>))

\* final_color before the mix with the background
ShadedColor(sh, tex_color) ==
    << ((sh.ambient[1] + sh.diffuse[1]) * tex_color[1]) \div ColorOne + sh.specular[1],
       ((sh.ambient[2] + sh.diffuse[2]) * tex_color[2]) \div ColorOne + sh.specular[2],
       ((sh.ambient[3] + sh.diffuse[3]) * tex_color[3]) \div ColorOne + sh.specular[3] >>

\* final_color and the COLORREF made of it.  background_color is mixed as it
\* is stored, in the units that c3d_render clamps to 0 .. 255.
FinalColor(D, mtl, sh, tex_color) ==
    ClampColor([c \in 1..3 |->
        ((ColorOne - mtl.transparency) * D.background_color[c] * ColorOne
            + mtl.transparency * ShadedColor(sh, tex_color)[c]) \div ColorOne])

ColorRef(final_color) ==
    RGB((final_color[1] * 255) \div ColorOne, (final_color[2] * 255) \div ColorOne,
        (final_color[3] * 255) \div ColorOne)

\* The colour of a fragment of a frame without lights, where the normal and
\* the point interpolated for the fragment reach no term of the shading.
FragmentColor(D, h, mtl) ==
    ColorRef(FinalColor(D, mtl, c3d_bphongshade(D, <<0, 0, 0>>, <<0, 0, 0>>, mtl),
                        c3d_texsample(h, mtl.diffuse_tex, 0, 0)))

\* Whether the call c draws on pixel (x, y), and the depth it has there.
Fragment(D, c, x, y) ==
    /\ c3d_edge(c.pv[1], c.pv[2], c.pv[3]) # 0
    /\ Covers(D, c.pv, Edges(c.pv, x, y), x, y)
    /\ Denom(Edges(c.pv, x, y), c.w) # 0

FragmentZ(c, x, y) ==
    Depth(ZNumer(Edges(c.pv, x, y), c.w, c.z), Denom(Edges(c.pv, x, y), c.w))

\* c3d_rasterize: the frame F after the call c = [pv, z, w, mtl] (the
\* projected corners, their NDC z, their clip w, the material).  Rows and
\* columns are numbered from 1 in F.
c3d_rasterize(D, h, F, c) ==
    [y \in 1..D.display_height |-> [x \in 1..D.display_width |->
        IF Fragment(D, c, x - 1, y - 1)
           /\ DepthTest(FragmentZ(c, x - 1, y - 1), F[y][x].depth)
        THEN [wc |-> C3D_PXCHAR, color |-> FragmentColor(D, h, c.mtl),
              depth |-> FragmentZ(c, x - 1, y - 1)]
        ELSE F[y][x]]]

\* The frame as c3d_update clears it.
ClearFrame(D) ==
    [y \in 1..D.display_height |-> [x \in 1..D.display_width |->
        [wc |-> Space, color |-> RGB(0, 0, 0), depth |-> INFINITY]]]

(***************************************************************************)
(* One frame: triangles of different materials are rasterized in any       *)
(* order.  io.frags[y][x] records every fragment produced for the pixel.   *)
(***************************************************************************)
Material(ambient) == [ambient_color |-> ambient, transparency |-> ColorOne, diffuse_tex |-> 1]

RasterCall(ndc0, ndc1, ndc2, w, mtl) ==
    [ndc |-> <<ndc0, ndc1, ndc2>>, w |-> w, mtl |-> mtl]

\* v_ndc (x and y in halves, z in tenths) and w_clip of the triangles
RasterPool ==
    << RasterCall(<<-2, -2, 2>>, <<2, -2, 2>>, <<-2, 2, 2>>, <<1, 1, 1>>, Material(<<510, 0, 0>>)),
       RasterCall(<<-2, 2, 5>>, <<2, 2, 5>>, <<2, -2, 5>>, <<1, 1, 1>>, Material(<<0, 510, 0>>)),
       RasterCall(<<-2, -2, 1>>, <<2, -2, 9>>, <<2, 2, 1>>, <<1, 2, 1>>, Material(<<0, 0, 510>>)),
       RasterCall(<<-2, -2, 8>>, <<2, 2, 0>>, <<-2, 2, 4>>, <<2, 1, 1>>, Material(<<102, 102, 102>>)),
       RasterCall(<<-2, 2, 3>>, <<2, -2, 3>>, <<-2, -2, 3>>, <<1, 1, 1>>, Material(<<255, 255, 0>>)),
       RasterCall(<<-2, -2, 0>>, <<0, 0, 0>>, <<2, 2, 0>>, <<1, 1, 1>>, Material(<<510, 510, 510>>)),
       RasterCall(<<-2, -2, 2>>, <<2, -2, 2>>, <<2, 2, 2>>, <<1, 1, 1>>, Material(<<0, 510, 510>>)),
       RasterCall(<<-6, -6, 4>>, <<6, -6, 4>>, <<-6, 6, 4>>, <<1, 1, 1>>, Material(<<510, 0, 510>>)) >>

\* The cells (x, y) that a call of c3d_rasterize writes: those of its two
\* loops that pass the tests.  The depth test of a cell outside the frame
\* reads beyond the buffer; the cell counts as written.
InFrame(D, x, y) == x >= 0 /\ x < D.display_width /\ y >= 0 /\ y < D.display_height

Writes(D, F, c) ==
    { cell \in (MinX(D, c.pv) .. MaxX(D, c.pv)) \X (MinY(D, c.pv) .. MaxY(D, c.pv)) :
        /\ Fragment(D, c, cell[1], cell[2])
        /\ InFrame(D, cell[1], cell[2]) =>
              DepthTest(FragmentZ(c, cell[1], cell[2]), F[cell[2] + 1][cell[1] + 1].depth) }

\* The arguments of c3d_rasterize that its loops use.
Projected(D, c) ==
    [pv |-> [i \in 1..3 |-> c3d_project_vec3vec2(c.ndc[i], D.display_width, D.display_height)],
     z |-> [i \in 1..3 |-> c.ndc[i][3]], w |-> c.w, mtl |-> c.mtl]

InitRaster ==
    /\ d = InitDisplay
    /\ heap = [Malloc(EmptyHeap) EXCEPT !.tex = Put(@, 1, NULL)]
    /\ g = [call |-> "init"]
    /\ io = [drawn |-> <<>>, frame |-> ClearFrame(d), before |-> ClearFrame(d), writes |-> {},
             frags |-> [y \in 1..d.display_height |-> [x \in 1..d.display_width |-> {}]]]

Rasterize ==
    /\ Len(io.drawn) < MaxTris
    /\ \E n \in 1..Len(RasterPool) :
          /\ \A k \in 1..Len(io.drawn) : io.drawn[k] # n
          /\ io' = [drawn |-> Append(io.drawn, n),
                    frame |-> c3d_rasterize(d, heap, io.frame, Projected(d, RasterPool[n])),
                    before |-> io.frame,
                    writes |-> Writes(d, io.frame, Projected(d, RasterPool[n])),
                    frags |-> [y \in 1..d.display_height |-> [x \in 1..d.display_width |->
                        IF Fragment(d, Projected(d, RasterPool[n]), x - 1, y - 1)
                        THEN io.frags[y][x] \cup
                                 {[tri |-> n,
                                   z |-> FragmentZ(Projected(d, RasterPool[n]), x - 1, y - 1),
                                   color |-> FragmentColor(d, heap, RasterPool[n].mtl)]}
                        ELSE io.frags[y][x]]]]
    /\ g' = [call |-> "c3d_rasterize"]
    /\ UNCHANGED <<d, heap>>

NextRaster == Rasterize

SpecRaster == InitRaster /\ [][NextRaster]_vars

ZLess(a, b) == a.n * b.q < b.n * a.q

\* C2: at every pixel, a fragment whose z is smaller than the z of every
\* other fragment produced for the pixel in the frame has its colour in the
\* colour buffer, whatever the order in which the triangles were drawn.
C2_NearestFragmentWins ==
    \A y \in 1..d.display_height : \A x \in 1..d.display_width :
        \A f \in io.frags[y][x] :
            (\A f2 \in io.frags[y][x] \ {f} : ZLess(f.z, f2.z)) =>
                io.frame[y][x].color = f.color

\* A pixel holds two fragments of different z and the nearer one was
\* produced first.
C2_Witness ==
    \E y \in 1..d.display_height : \E x \in 1..d.display_width :
        \E f \in io.frags[y][x] : \E f2 \in io.frags[y][x] :
            /\ ZLess(f.z, f2.z)
            /\ \E i \in 1..Len(io.drawn) : \E j \in 1..Len(io.drawn) :
                  i < j /\ io.drawn[i] = f.tri /\ io.drawn[j] = f2.tri

\* The place of triangle n in the order in which the triangles were drawn
DrawnAt(n) == CHOOSE k \in 1..Len(io.drawn) : io.drawn[k] = n

\* C26: at every pixel, a fragment that is nearer than every other fragment
\* of the pixel, or as near as another one and processed before it, has its
\* colour in the colour buffer: of two fragments of equal depth the pixel
\* keeps the one processed first.
C26_FirstOfEqualDepthKept ==
    \A y \in 1..d.display_height : \A x \in 1..d.display_width :
        \A f \in io.frags[y][x] :
            (\A f2 \in io.frags[y][x] \ {f} :
                \/ ZLess(f.z, f2.z)
                \/ ~ZLess(f2.z, f.z) /\ DrawnAt(f.tri) < DrawnAt(f2.tri))
                => io.frame[y][x].color = f.color

\* A pixel holds two fragments of equal depth and different colours, and no
\* nearer one.
C26_Witness ==
    \E y \in 1..d.display_height : \E x \in 1..d.display_width :
        \E f \in io.frags[y][x] : \E f2 \in io.frags[y][x] :
            /\ f.tri # f2.tri /\ f.color # f2.color
            /\ ~ZLess(f.z, f2.z) /\ ~ZLess(f2.z, f.z)
            /\ \A f3 \in io.frags[y][x] : ~ZLess(f3.z, f.z)

\* a <= b for two depths
DepthLeq(a, b) == b.inf \/ (~a.inf /\ a.n * b.q <= b.n * a.q)

Indeterminate == <<"indeterminate">>

\* c3d_init__obj: the sizes are zeroed, smooth is not assigned.
c3d_init__obj ==
    [v |-> <<>>, vn |-> <<>>, vt |-> <<>>, f |-> <<>>, smooth |-> "indeterminate",
     oob |-> FALSE]

Token(form, v, t, n) == [form |-> form, v |-> v, t |-> t, n |-> n]

\* vidx[c], vtidx[c], vnidx[c] as the chain of sscanf calls leaves them.
ParseToken(token) ==
    CASE token.form = "v/t/n" -> <<token.v, token.t, token.n>>
      [] token.form = "v//n"  -> <<token.v, 0, token.n>>
      [] token.form = "v/t"   -> <<token.v, token.t, 0>>
      [] token.form = "v"     -> <<token.v, 0, 0>>
      [] OTHER                -> <<0, 0, 0>>

\* c, the tokens read from a face line: while (token != NULL && c < 4)
FaceCorners(tokens) == Min2(Len(tokens), 4)

\* list[idx - 1] in C, for a 1-based idx
ReadAt(list, idx) == IF idx \in 1..Len(list) THEN list[idx] ELSE Indeterminate

\* The i-th triangle of the fan over the parsed corners p.
FaceTri(o, p, i) ==
    [vx |-> ReadAt(o.v, p[1][1]), vy |-> ReadAt(o.v, p[i + 1][1]),
     vz |-> ReadAt(o.v, p[i + 2][1]),
     uvx |-> IF Len(o.vt) > 0 /\ p[1][2] > 0 /\ p[i + 1][2] > 0 /\ p[i + 2][2] > 0
             THEN ReadAt(o.vt, p[1][2]) ELSE <<0, 0>>,
     uvy |-> IF Len(o.vt) > 0 /\ p[1][2] > 0 /\ p[i + 1][2] > 0 /\ p[i + 2][2] > 0
             THEN ReadAt(o.vt, p[i + 1][2]) ELSE <<0, 0>>,
     uvz |-> IF Len(o.vt) > 0 /\ p[1][2] > 0 /\ p[i + 1][2] > 0 /\ p[i + 2][2] > 0
             THEN ReadAt(o.vt, p[i + 2][2]) ELSE <<0, 0>>,
     nvx |-> IF Len(o.vn) > 0 /\ p[1][3] > 0 /\ p[i + 1][3] > 0 /\ p[i + 2][3] > 0
             THEN ReadAt(o.vn, p[1][3]) ELSE <<0, 0, 0>>,
     nvy |-> IF Len(o.vn) > 0 /\ p[1][3] > 0 /\ p[i + 1][3] > 0 /\ p[i + 2][3] > 0
             THEN ReadAt(o.vn, p[i + 1][3]) ELSE <<0, 0, 0>>,
     nvz |-> IF Len(o.vn) > 0 /\ p[1][3] > 0 /\ p[i + 1][3] > 0 /\ p[i + 2][3] > 0
             THEN ReadAt(o.vn, p[i + 2][3]) ELSE <<0, 0, 0>>]

\* Whether a triangle holds a value read beyond an array.
ReadsBeyond(t) ==
    Indeterminate \in {t.vx, t.vy, t.vz, t.uvx, t.uvy, t.uvz, t.nvx, t.nvy, t.nvz}

\* The loop for (i = 1; i < c - 1; i++) of a face line
FaceLine(o, p) ==
    IF Len(p) < 3 THEN o
    ELSE [o EXCEPT !.f = @ \o [i \in 1..(Len(p) - 2) |-> FaceTri(o, p, i)],
                   !.oob = @ \/ \E i \in 1..(Len(p) - 2) : ReadsBeyond(FaceTri(o, p, i))]

\* One line of the file
ObjLine(o, line) ==
    CASE line.k = "s" ->
            IF line.a \in {"1", "on"} THEN [o EXCEPT !.smooth = "true"]
            ELSE IF line.a \in {"0", "off"} THEN [o EXCEPT !.smooth = "false"]
            ELSE o
      [] line.k = "vt" -> [o EXCEPT !.vt = Append(@, line.a)]
      [] line.k = "vn" -> [o EXCEPT !.vn = Append(@, line.a)]
      [] line.k = "v" -> [o EXCEPT !.v = Append(@, line.a)]
      [] line.k = "f" ->
            FaceLine(o, [j \in 1..FaceCorners(line.a) |-> ParseToken(line.a[j])])
      [] OTHER -> o

RECURSIVE LoadObjFrom(_, _, _)
LoadObjFrom(o, lines, n) ==
    IF n > Len(lines) THEN o ELSE LoadObjFrom(ObjLine(o, lines[n]), lines, n + 1)

\* c3d_loadobj on a file that opens
c3d_loadobj(lines) == LoadObjFrom(c3d_init__obj, lines, 1)

(***************************************************************************)
(* The MTL reader.  current_material is the index of the material that     *)
(* the last newmtl line made, 0 (NULL) before the first.  A property line  *)
(* stores through current_material; stored through NULL, the store ends    *)
(* the process.  A line holds its numbers in the tuple a; for map_Kd, <<1>> *)
(* when c3d_loadimg returns data for the path and <<0>> when it does not.  *)
(***************************************************************************)
NewMaterial ==
    [ambient_color |-> <<102, 102, 102>>, diffuse_color |-> <<408, 408, 408>>,
     specular_color |-> <<510, 510, 510>>, shininess |-> 32, transparency |-> ColorOne,
     diffuse_tex |-> NULL]

\* The material after the store of a property line
MtlStore(mt, line) ==
    CASE line.k = "Ka" -> [mt EXCEPT !.ambient_color = line.a]
      [] line.k = "Kd" -> [mt EXCEPT !.diffuse_color = line.a]
      [] line.k = "Ks" -> [mt EXCEPT !.specular_color = line.a]
      [] line.k = "Ns" -> [mt EXCEPT !.shininess = line.a[1]]
      [] line.k = "d" -> [mt EXCEPT !.transparency = line.a[1]]
      [] line.k = "map_Kd" -> [mt EXCEPT !.diffuse_tex = 1]
      [] OTHER -> mt

\* Whether the line stores into the current material: a map_Kd line does so
\* only when c3d_loadimg returned data.
MtlStores(line) ==
    \/ line.k \in {"Ka", "Kd", "Ks", "Ns", "d"}
    \/ line.k = "map_Kd" /\ line.a = <<1>>

MtlLine(r, line) ==
    IF line.k = "newmtl" THEN [r EXCEPT !.materials = Append(@, NewMaterial)]
    ELSE IF ~MtlStores(line) THEN r
    ELSE IF Len(r.materials) = 0 THEN [r EXCEPT !.fault = TRUE]
    ELSE [r EXCEPT !.materials[Len(r.materials)] = MtlStore(@, line)]

RECURSIVE LoadMtlFrom(_, _, _)
LoadMtlFrom(r, lines, n) ==
    IF n > Len(lines) \/ r.fault THEN r
    ELSE LoadMtlFrom(MtlLine(r, lines[n]), lines, n + 1)

\* The materials that c3d_loadmtl reads from the lines of a file
LoadMtlLines(lines) == LoadMtlFrom([materials |-> <<>>, fault |-> FALSE], lines, 1)

(***************************************************************************)
(* The readers on files: an OBJ file with four vertices, two texture       *)
(* coordinates, two normals and one face line of any tokens; an MTL file   *)
(* of any directive lines.                                                 *)
(***************************************************************************)
ObjHeader ==
    << [k |-> "v", a |-> <<0, 0, 0>>], [k |-> "v", a |-> <<5, 0, 0>>],
       [k |-> "v", a |-> <<5, 5, 0>>], [k |-> "v", a |-> <<0, 5, 5>>],
       [k |-> "vt", a |-> <<0, 0>>], [k |-> "vt", a |-> <<1, 1>>],
       [k |-> "vn", a |-> <<0, 0, 5>>], [k |-> "vn", a |-> <<0, 5, 0>>] >>

GoodTokens ==
    { Token("v", 1, 0, 0), Token("v/t/n", 2, 1, 1), Token("v//n", 3, 0, 2),
      Token("v/t", 4, 2, 0) }

\* An unparseable token, the index 0 and an index beyond the vertices read
BadTokens == { Token("none", 0, 0, 0), Token("v", 0, 0, 0), Token("v", 9, 0, 0) }

FaceLines ==
    UNION { [1..n -> GoodTokens \cup BadTokens] : n \in 1..MaxFaceTokens }

MtlDirectives ==
    { [k |-> "newmtl", a |-> <<>>], [k |-> "Ka", a |-> <<510, 0, 0>>],
      [k |-> "Kd", a |-> <<0, 510, 0>>], [k |-> "Ns", a |-> <<10>>], [k |-> "d", a |-> <<255>>],
      [k |-> "map_Kd", a |-> <<1>>], [k |-> "map_Kd", a |-> <<0>>] }

MtlFiles == UNION { [1..n -> MtlDirectives] : n \in 1..MaxMtlLines }

InitObj ==
    /\ d = InitDisplay
    /\ heap = EmptyHeap
    /\ g = [call |-> "init"]
    /\ \/ \E face \in FaceLines :
             io = [kind |-> "obj", file |-> Append(ObjHeader, [k |-> "f", a |-> face])]
       \/ \E lines \in MtlFiles : io = [kind |-> "mtl", file |-> lines]

\* c3d_loadobj returns the object; after a read beyond an array it may
\* instead have ended the process.
LoadObj ==
    /\ g.call = "init" /\ io.kind = "obj"
    /\ io' = [kind |-> "obj", file |-> io.file, obj |-> c3d_loadobj(io.file)]
    /\ \/ g' = [call |-> "c3d_loadobj"]
       \/ io'.obj.oob /\ g' = [call |-> "fault"]
    /\ UNCHANGED <<d, heap>>

LoadMtl ==
    /\ g.call = "init" /\ io.kind = "mtl"
    /\ io' = [kind |-> "mtl", file |-> io.file,
              materials |-> LoadMtlLines(io.file).materials]
    /\ g' = [call |-> IF LoadMtlLines(io.file).fault THEN "fault" ELSE "c3d_loadmtl"]
    /\ UNCHANGED <<d, heap>>

NextObj == LoadObj \/ LoadMtl

SpecObj == InitObj /\ [][NextObj]_vars

\* The tokens of the face line of the file read
FaceTokens == io.file[Len(io.file)].a

WellFormed(token) == token.form # "none" /\ token.v \in 1..4

\* C12: a face line of N >= 3 vertex tokens, each naming a vertex of the
\* file, appends N - 2 triangles, the i-th made of face vertices 0, i and
\* i + 1 in that order.
C12_FanOfEveryFace ==
    (g.call = "c3d_loadobj" /\ Len(FaceTokens) >= 3
        /\ \A j \in 1..Len(FaceTokens) : WellFormed(FaceTokens[j])) =>
        /\ Len(io.obj.f) = Len(FaceTokens) - 2
        /\ \A i \in 1..Len(io.obj.f) :
              io.obj.f[i] = FaceTri(io.obj, [j \in 1..Len(FaceTokens) |->
                                                 ParseToken(FaceTokens[j])], i)

\* C13: a face line with a token that does not parse, or whose vertex index
\* is 0 or beyond the vertices read, appends no triangle and reads nothing
\* beyond an array; an MTL file whose first directive is a property one
\* yields no material changed by it and does not end the process.
C13_MalformedLineSkipped ==
    /\ (g.call \in {"c3d_loadobj", "fault"} /\ io.kind = "obj"
           /\ \E j \in 1..Len(FaceTokens) : ~WellFormed(FaceTokens[j])) =>
          (g.call = "c3d_loadobj" /\ io.obj.f = <<>> /\ ~io.obj.oob)
    /\ (g.call \in {"c3d_loadmtl", "fault"} /\ io.kind = "mtl"
           /\ io.file[1].k # "newmtl") =>
          (g.call = "c3d_loadmtl"
             /\ io.materials = LoadMtlLines(SubSeq(io.file, 2, Len(io.file))).materials)

(***************************************************************************)
(* Smooth normals.  A unit vector is held times NormalScale; positions are *)
(* integers, so the 1e-6 test on positions is equality.                    *)
(***************************************************************************)
\* A face normal that leans on the normal the triangle already has.
FaceNormalKept(t) ==
    c3d_vec3normalize([i \in 1..3 |->
        c3d_vec3cross([j \in 1..3 |-> t.vy[j] - t.vx[j]],
                      [j \in 1..3 |-> t.vz[j] - t.vx[j]])[i] + t.nvx[i]])

\* face_normal of a triangle
FaceNormal(t) ==
    c3d_vec3normalize(c3d_vec3cross([j \in 1..3 |-> t.vy[j] - t.vx[j]],
                                    [j \in 1..3 |-> t.vz[j] - t.vx[j]]))

\* positions[k] for k from 1: corner (k - 1) % 3 of triangle (k - 1) \div 3
PositionAt(tris, k) ==
    CASE (k - 1) % 3 = 0 -> tris[(k - 1) \div 3 + 1].vx
      [] (k - 1) % 3 = 1 -> tris[(k - 1) \div 3 + 1].vy
      [] OTHER -> tris[(k - 1) \div 3 + 1].vz

\* sum_normals_unique and arr_count_unique of the position p, after the
\* corners before k have added sum and count
RECURSIVE SumNormals(_, _, _, _, _)
SumNormals(tris, p, k, sum, count) ==
    IF k > 3 * Len(tris) THEN [sum |-> sum, count |-> count]
    ELSE IF PositionAt(tris, k) # p THEN SumNormals(tris, p, k + 1, sum, count)
    ELSE SumNormals(tris, p, k + 1,
                    [i \in 1..3 |-> sum[i] + FaceNormal(tris[(k - 1) \div 3 + 1])[i]],
                    count + 1)

\* The averaged and normalized normal
Averaged(sn) == c3d_vec3normalize([i \in 1..3 |-> RDiv(sn.sum[i], sn.count)])

c3d_vecnormalavg(tris) ==
    [n \in 1..Len(tris) |->
        [tris[n] EXCEPT !.nvx = Averaged(SumNormals(tris, tris[n].vx, 1, <<0, 0, 0>>, 0)),
                        !.nvy = Averaged(SumNormals(tris, tris[n].vy, 1, <<0, 0, 0>>, 0)),
                        !.nvz = Averaged(SumNormals(tris, tris[n].vz, 1, <<0, 0, 0>>, 0))]]

(***************************************************************************)
(* c3d_loadmesh up to the triangles of the mesh.  The folder holds no OBJ  *)
(* file ("none"), one that does not open ("unreadable"), or one with the   *)
(* lines given.  A mesh built from an indeterminate lobj is not followed   *)
(* further.  io.smoothed tells whether c3d_loadmesh ran the synthesis;     *)
(* io.before holds the triangles before the last c3d_vecnormalavg call     *)
(* made on the loaded mesh, io.runs counts those calls.                    *)
(***************************************************************************)
\* The ways c3d_loadmesh can go on a folder: exit(-1) without an OBJ file;
\* with one that does not open, c3d_loadobj returns no value and lobj is
\* indeterminate; lobj->smooth, when no `s` line set it, is indeterminate
\* as well and the test can go either way.
LoadMeshOutcomes(obj, lobj) ==
    IF obj = <<"none">> THEN {[call |-> "exit", tris |-> <<>>, smoothed |-> FALSE]}
    ELSE IF obj = <<"unreadable">>
    THEN {[call |-> "fault", tris |-> <<>>, smoothed |-> FALSE],
          [call |-> "c3d_loadmesh: indeterminate mesh", tris |-> <<>>, smoothed |-> FALSE]}
    ELSE (IF lobj.smooth \in {"true", "indeterminate"}
          THEN {[call |-> "c3d_loadmesh", tris |-> c3d_vecnormalavg(lobj.f),
                 smoothed |-> TRUE]}
          ELSE {})
         \cup
         (IF lobj.smooth \in {"false", "indeterminate"}
          THEN {[call |-> "c3d_loadmesh", tris |-> lobj.f, smoothed |-> FALSE]}
          ELSE {})

SmoothLines ==
    { <<>>, <<[k |-> "s", a |-> "1"]>>, <<[k |-> "s", a |-> "on"]>>,
      <<[k |-> "s", a |-> "0"]>>, <<[k |-> "s", a |-> "off"]>>,
      <<[k |-> "s", a |-> "1"], [k |-> "s", a |-> "off"]>>,
      <<[k |-> "s", a |-> "0"], [k |-> "s", a |-> "on"]>> }

MeshFaces == UNION { [1..n -> GoodTokens] : n \in 3..4 }

\* A triangle and a quad
PlainFaces ==
    { <<Token("v/t/n", 2, 1, 1), Token("v//n", 3, 0, 2), Token("v/t", 4, 2, 0)>>,
      <<Token("v", 1, 0, 0), Token("v/t/n", 2, 1, 1), Token("v//n", 3, 0, 2),
        Token("v/t", 4, 2, 0)>> }

\* Every face without an `s` line, two faces under every choice of `s` lines
ObjFolders ==
    { <<"none">>, <<"unreadable">> }
    \cup { Append(ObjHeader, [k |-> "f", a |-> face]) : face \in MeshFaces }
    \cup { ObjHeader \o sl \o <<[k |-> "f", a |-> face]>> :
               sl \in SmoothLines, face \in PlainFaces }

InitMesh ==
    /\ d = InitDisplay
    /\ heap = EmptyHeap
    /\ g = [call |-> "init"]
    /\ \E obj \in ObjFolders :
          io = [obj |-> obj, tris |-> <<>>, smoothed |-> FALSE, before |-> <<>>, runs |-> 0]

LoadMesh ==
    /\ g.call = "init"
    /\ \E r \in LoadMeshOutcomes(io.obj, IF Len(io.obj) = 1 THEN c3d_init__obj
                                         ELSE c3d_loadobj(io.obj)) :
          /\ g' = [call |-> r.call]
          /\ io' = [io EXCEPT !.tris = r.tris, !.smoothed = r.smoothed]
    /\ UNCHANGED <<d, heap>>

VecNormalAvg ==
    /\ g.call \in {"c3d_loadmesh", "c3d_vecnormalavg"}
    /\ io.runs < MaxSmooth
    /\ io' = [io EXCEPT !.tris = c3d_vecnormalavg(io.tris), !.before = io.tris,
                        !.runs = @ + 1]
    /\ g' = [call |-> "c3d_vecnormalavg"]
    /\ UNCHANGED <<d, heap>>

NextMesh == LoadMesh \/ VecNormalAvg

SpecMesh == InitMesh /\ [][NextMesh]_vars

\* C14: on a folder without an OBJ file, or with one that does not open,
\* c3d_loadmesh returns an error to its caller; the process goes on and no
\* mesh is built.
C14_MissingObjReturnsError ==
    (g.call # "init" /\ Len(io.obj) = 1) => g.call = "error"

\* The argument of the last `s` line of the file, "" without one
RECURSIVE LastS(_, _)
LastS(lines, n) ==
    IF n = 0 THEN ""
    ELSE IF lines[n].k = "s" THEN lines[n].a
    ELSE LastS(lines, n - 1)

\* C16: c3d_loadmesh runs the synthesis exactly when the last `s` line of
\* the OBJ file is `s 1` or `s on`; otherwise the triangles keep the
\* normals read from the file.
C16_SmoothOnlyOnRequest ==
    (g.call = "c3d_loadmesh" /\ Len(io.obj) > 1) =>
        /\ io.smoothed <=> LastS(io.obj, Len(io.obj)) \in {"1", "on"}
        /\ ~io.smoothed => io.tris = c3d_loadobj(io.obj).f

\* C17: a second c3d_vecnormalavg leaves the normals the first one made,
\* and no call changes a position, a UV or the number of triangles.
C17_SmoothIdempotent ==
    g.call = "c3d_vecnormalavg" =>
        /\ Len(io.tris) = Len(io.before)
        /\ \A n \in 1..Len(io.tris) :
              /\ io.tris[n].vx = io.before[n].vx /\ io.tris[n].vy = io.before[n].vy
              /\ io.tris[n].vz = io.before[n].vz
              /\ io.tris[n].uvx = io.before[n].uvx /\ io.tris[n].uvy = io.before[n].uvy
              /\ io.tris[n].uvz = io.before[n].uvz
        /\ (io.runs >= 2 \/ io.smoothed) => io.tris = io.before

\* A mesh of two triangles whose file normals differ from the synthesized
\* ones has been smoothed twice.
C17_Witness ==
    /\ g.call = "c3d_vecnormalavg" /\ io.runs = 2 /\ ~io.smoothed
    /\ Len(io.tris) = 2
    /\ io.tris # c3d_loadobj(io.obj).f
    /\ io.tris[1].nvx # io.tris[2].nvz

(***************************************************************************)
(* Shading of one fragment.  The display holds a background colour and     *)
(* lights; Shade is the body of the pixel loop of c3d_rasterize for a      *)
(* fragment with the interpolated normal io.normal at the point io.space.  *)
(***************************************************************************)
MaxLights == 2

Light(position, color, brightness, radius) ==
    [position |-> position, color |-> color, brightness |-> brightness, radius |-> radius]

\* The shaded point and its normal, which faces the camera at the origin
ShadePoint == <<0, 0, -10>>
ShadeNormal == <<0, 0, NormalScale>>

\* Lights: straight above the point, slanted by 45 degrees, slanted and
\* red, farther than its radius, behind the surface, and the light that the
\* k key adds (radius 0.5) two units away.
LightPool ==
    { Light(<<0, 0, -5>>, <<255, 255, 255>>, 1, 50),
      Light(<<0, 5, -5>>, <<255, 255, 255>>, 1, 50),
      Light(<<5, 0, -5>>, <<255, 0, 0>>, 2, 50),
      Light(<<0, 0, 40>>, <<255, 255, 255>>, 1, 50),
      Light(<<0, 0, -20>>, <<255, 255, 255>>, 1, 50),
      Light(<<0, 0, 0>>, <<255, 128, 0>>, 1, 5) }

ShadeBackgrounds == { <<0, 0, 0>>, <<0, 0, 255>>, <<255, 255, 255>> }

ShadeMaterial(ambient, diffuse, specular, transparency) ==
    [NewMaterial EXCEPT !.ambient_color = ambient, !.diffuse_color = diffuse,
                        !.specular_color = specular, !.shininess = 2,
                        !.transparency = transparency, !.diffuse_tex = 1]

\* Ka 0.2 and Kd 0.8 of newmtl, a Ka of 0.5, and d of 1, 0.5 and 0
ShadeMaterials ==
    { ShadeMaterial(ka, kd, ks, tr) :
        ka \in { <<102, 102, 102>>, <<255, 255, 255>> },
        kd \in { <<408, 408, 408>>, <<0, 0, 0>> },
        ks \in { <<0, 0, 0>>, <<510, 510, 510>> },
        tr \in { ColorOne, 255, 0 } }

InitShade ==
    /\ \E bg \in ShadeBackgrounds :
          d = c3d_initdisplay(c3d_initcam(<<0, 0, 0>>, ResetFov, 1), WinWidth, WinHeight, bg)
    /\ heap = [Malloc(EmptyHeap) EXCEPT !.tex = Put(@, 1, NULL)]
    /\ g = [call |-> "init"]
    /\ io = [mtl |-> NewMaterial, normal |-> ShadeNormal, space |-> ShadePoint,
             sums |-> [diffuse |-> <<0, 0, 0>>, specular |-> <<0, 0, 0>>],
             shaded |-> <<0, 0, 0>>, color |-> RGB(0, 0, 0)]

\* c3d_lightadd, before the frame that is shaded
ShadeLightAdd ==
    /\ light_count(d) < MaxLights
    /\ g.call # "c3d_rasterize"
    /\ \E L \in LightPool : d' = c3d_lightadd(d, L)
    /\ g' = [call |-> "c3d_lightadd"]
    /\ UNCHANGED <<heap, io>>

\* The record of a fragment: what the lights added, final_color before the
\* mix, and the colour written
Shading(D, h, mtl, normal, space, sums) ==
    [mtl |-> mtl, normal |-> normal, space |-> space, sums |-> sums,
     shaded |-> ShadedColor(Shaded(mtl, sums), c3d_texsample(h, mtl.diffuse_tex, 0, 0)),
     color |-> ColorRef(FinalColor(D, mtl, Shaded(mtl, sums),
                                   c3d_texsample(h, mtl.diffuse_tex, 0, 0)))]

Shade ==
    /\ \E mtl \in ShadeMaterials :
          io' = Shading(d, heap, mtl, ShadeNormal, ShadePoint,
                        ShadeLights(d, ShadeNormal, ShadePoint, mtl, 1,
                                    <<0, 0, 0>>, <<0, 0, 0>>))
    /\ g' = [call |-> "c3d_rasterize"]
    /\ UNCHANGED <<d, heap>>

NextShade == ShadeLightAdd \/ Shade

SpecShade == InitShade /\ [][NextShade]_vars

\* The channels of a COLORREF
Channels(color) == <<GetRValue(color), GetGValue(color), GetBValue(color)>>

\* lerp(background, c, transparency) clamped to [0,1], with the background
\* colour as a colour: its 255 is 1.0
Lerp(background, c, transparency) ==
    ClampColor([k \in 1..3 |->
        RDiv((ColorOne - transparency) * 2 * background[k] + transparency * c[k], ColorOne)])

\* C18: the colour written for a shaded pixel is lerp(background, c,
\* transparency) clamped to [0,1] and converted by round(value * 255); with a
\* transparency of 0.5 it is within 1/255 of 0.5 * background + 0.5 * c.
C18_TransparencyMix ==
    g.call = "c3d_rasterize" =>
        /\ \A k \in 1..3 :
              Channels(io.color)[k]
                  = RDiv(Lerp(d.background_color, io.shaded, io.mtl.transparency)[k] * 255,
                         ColorOne)
        /\ io.mtl.transparency = 255 =>
              \A k \in 1..3 :
                  Abs(4 * Channels(io.color)[k]
                        - (2 * d.background_color[k] + io.shaded[k])) <= 4

\* NdotL of a light, times NormalScale * NormalScale
NdotL(L, normal, space) ==
    Max2(0, c3d_vec3dot(normal, c3d_vec3normalize(c3d_vec3sub(L.position, space))))

\* v * NdotL, for NdotL times NormalScale
TimesNdotL(v, ndotl) ==
    <<RDiv(v[1] * ndotl, NormalScale), RDiv(v[2] * ndotl, NormalScale),
      RDiv(v[3] * ndotl, NormalScale)>>

\* The sum of Kd * L.color * L.brightness * NdotL over the lights that
\* reach the point, from light n on
RECURSIVE DiffuseByNdotL(_, _, _, _, _, _)
DiffuseByNdotL(D, normal, space, mtl, n, sum) ==
    IF n > Len(D.lights) THEN sum
    ELSE IF ~Lit(D.lights[n], normal, c3d_vec3sub(D.lights[n].position, space))
    THEN DiffuseByNdotL(D, normal, space, mtl, n + 1, sum)
    ELSE DiffuseByNdotL(D, normal, space, mtl, n + 1,
            c3d_vec3add(sum, TimesNdotL(DiffuseTerm(D.lights[n], mtl),
                                        RDiv(NdotL(D.lights[n], normal, space), NormalScale))))

\* Whether the light is farther from the point than its radius
Farther(L, space) ==
    4 * c3d_vec3dot(c3d_vec3sub(L.position, space), c3d_vec3sub(L.position, space))
        > L.radius * L.radius

\* C19: each light within its radius with NdotL > 0 adds
\* Kd * L.color * L.brightness * NdotL to the diffuse term, and a light
\* farther than its radius adds nothing to the diffuse or the specular term.
C19_DiffuseByNdotL ==
    g.call = "c3d_rasterize" =>
        /\ \A c \in 1..3 :
              Abs(io.sums.diffuse[c]
                    - DiffuseByNdotL(d, io.normal, io.space, io.mtl, 1, <<0, 0, 0>>)[c])
                  <= 2 * MaxLights
        /\ (\A n \in 1..Len(d.lights) : Farther(d.lights[n], io.space)) =>
              /\ io.sums.diffuse = <<0, 0, 0>>
              /\ io.sums.specular = <<0, 0, 0>>

(***************************************************************************)
(* c3d_update, step by step.  g.pc is the step the call is at ("idle"      *)
(* outside of a call), g.i the index of its loop, g.log the steps the call *)
(* has performed.  The frame is held as the blocks allocated for it and    *)
(* the calls of c3d_rasterize made on it; what a call draws and what the   *)
(* composer prints are in SpecRaster and SpecRender.                       *)
(***************************************************************************)
\* An order of the steps in which the frame is counted before it is drawn.
StepBefore(step) ==
    CASE step = "behaviors" -> "buffers"
      [] step = "buffers" -> "frame_count"
      [] step = "frame_count" -> "triangles"
      [] step = "triangles" -> "c3d_render"
      [] step = "c3d_render" -> "free"
      [] OTHER -> "idle"

\* The step that follows a step of c3d_update; after "free" it returns.
StepAfter(step) ==
    CASE step = "behaviors" -> "buffers"
      [] step = "buffers" -> "triangles"
      [] step = "triangles" -> "frame_count"
      [] step = "frame_count" -> "c3d_render"
      [] step = "c3d_render" -> "free"
      [] OTHER -> "idle"

\* The triangles of meshes i, i + 1, ..., in the order of the two loops
RECURSIVE TrisFrom(_, _)
TrisFrom(meshes, i) ==
    IF i > Len(meshes) THEN <<>> ELSE meshes[i].tris \o TrisFrom(meshes, i + 1)

Logged(log, step, n) == Append(log, [step |-> step, n |-> n])

\* The next position of a loop over 1 .. count that has just done (or, for
\* an empty loop, skipped) iteration i
LoopNext(G, step, count) ==
    IF G.i >= count THEN [G EXCEPT !.pc = StepAfter(step), !.i = 1]
    ELSE [G EXCEPT !.i = @ + 1]

UpdateMeshes ==
    { <<>>,
      << [name |-> "a", tris |-> <<MeshTri(1, 2, 3), Reversed(MeshTri(1, 2, 3))>>,
          mtl |-> Material(<<510, 0, 0>>)] >>,
      << [name |-> "a", tris |-> <<MeshTri(1, 2, 3)>>, mtl |-> Material(<<510, 0, 0>>)],
         [name |-> "b", tris |-> <<MeshTri(4, 5, 6), MeshTri(3, 2, 1)>>,
          mtl |-> Material(<<0, 510, 0>>)] >> }

UpdateBehaviors ==
    { <<>>,
      <<Rotate(CONTINUOUS)>>,
      <<Rotate(STARTUP), Rotate(CONTINUOUS)>>,
      <<[func |-> "NULL", type |-> CONTINUOUS, args |-> [id |-> 0]], Rotate(STARTUP)>> }

InitUpdate ==
    /\ \E camera \in Cameras, meshes \in UpdateMeshes, behaviors \in UpdateBehaviors :
          d = [c3d_initdisplay(camera, WinWidth, WinHeight, <<0, 0, 0>>)
                 EXCEPT !.meshes = meshes, !.behaviors = behaviors]
    /\ heap = EmptyHeap
    /\ g = [pc |-> "idle", i |-> 1, frames |-> 0, fc |-> 0, log |-> <<>>]
    /\ io = [scratch |-> {}, calls |-> <<>>, rendered |-> <<>>]

\* main's loop calls c3d_update
UpdateCall ==
    /\ g.pc = "idle" /\ g.frames < MaxFrames
    /\ g' = [g EXCEPT !.pc = "behaviors", !.i = 1, !.fc = d.frame_count, !.log = <<>>]
    /\ io' = [scratch |-> {}, calls |-> <<>>, rendered |-> <<>>]
    /\ UNCHANGED <<d, heap>>

\* One turn of the loop over d->behaviors
UpdateBehavior ==
    /\ g.pc = "behaviors"
    /\ IF g.i <= behavior_count(d) /\ Executes(d, d.behaviors[g.i])
       THEN /\ d' = CallBehavior(d, heap, d.behaviors[g.i]).d
            /\ heap' = CallBehavior(d, heap, d.behaviors[g.i]).h
            /\ g' = LoopNext([g EXCEPT !.log = Logged(@, "behaviors", g.i)],
                             "behaviors", behavior_count(d))
       ELSE /\ g' = LoopNext(g, "behaviors", behavior_count(d))
            /\ UNCHANGED <<d, heap>>
    /\ UNCHANGED io

\* depthBuffer, buffer, colorBuffer and their rows, allocated and cleared
UpdateBuffers ==
    /\ g.pc = "buffers"
    /\ heap' = MallocN(heap, 3 + 3 * d.display_height)
    /\ io' = [io EXCEPT !.scratch = heap.next .. (heap.next + 3 + 3 * d.display_height - 1),
                        !.calls = <<>>]
    /\ g' = [g EXCEPT !.pc = StepAfter("buffers"), !.i = 1, !.log = Logged(@, "buffers", 0)]
    /\ UNCHANGED d

\* One turn of the loops over the meshes and their triangles
UpdateTriangles ==
    /\ g.pc = "triangles"
    /\ IF g.i <= Len(TrisFrom(d.meshes, 1))
       THEN /\ io' = [io EXCEPT !.calls = @ \o UpdateTriangle(d, TrisFrom(d.meshes, 1)[g.i])]
            /\ g' = LoopNext([g EXCEPT !.log = Logged(@, "triangles", g.i)],
                             "triangles", Len(TrisFrom(d.meshes, 1)))
       ELSE /\ g' = LoopNext(g, "triangles", 0)
            /\ UNCHANGED io
    /\ UNCHANGED <<d, heap>>

\* d->frame_count++
UpdateFrameCount ==
    /\ g.pc = "frame_count"
    /\ d' = [d EXCEPT !.frame_count = @ + 1]
    /\ g' = [g EXCEPT !.pc = StepAfter("frame_count"), !.log = Logged(@, "frame_count", 0)]
    /\ UNCHANGED <<heap, io>>

\* c3d_render(d, buffer, colorBuffer)
UpdateRender ==
    /\ g.pc = "c3d_render"
    /\ io' = [io EXCEPT !.rendered = io.calls]
    /\ heap' = RenderAlloc(heap)
    /\ g' = [g EXCEPT !.pc = StepAfter("c3d_render"), !.log = Logged(@, "c3d_render", 0)]
    /\ UNCHANGED d

\* The rows and the three arrays are freed, and c3d_update returns
UpdateFree ==
    /\ g.pc = "free"
    /\ heap' = FreeAll(heap, io.scratch)
    /\ g' = [g EXCEPT !.pc = StepAfter("free"), !.frames = @ + 1,
                      !.log = Logged(@, "free", 0)]
    /\ UNCHANGED <<d, io>>

NextUpdate ==
    \/ UpdateCall
    \/ UpdateBehavior
    \/ UpdateBuffers
    \/ UpdateTriangles
    \/ UpdateFrameCount
    \/ UpdateRender
    \/ UpdateFree

SpecUpdate == InitUpdate /\ [][NextUpdate]_vars

\* The place of a step in the order that the frame is made in
Rank(step) ==
    CASE step = "behaviors" -> 1
      [] step = "buffers" -> 2
      [] step = "triangles" -> 3
      [] step = "frame_count" -> 4
      [] step = "c3d_render" -> 5
      [] step = "free" -> 6

\* The indices that the log holds for a step
LoggedAt(step) == {k \in 1..Len(g.log) : g.log[k].step = step}

\* C20: a call of c3d_update performs its steps in the order behaviours,
\* frame buffers, triangles, frame_count, composer, release: the behaviours
\* in insertion order and the triangles in their order, every step once;
\* when the call has returned every behaviour that was due and every
\* triangle has had its turn and frame_count is one more than at the call.
\* No behaviour runs once the buffers are allocated or a triangle is drawn.
C20_UpdateOrder ==
    /\ g.pc # "idle" => g.fc = d.frame_count - (IF LoggedAt("frame_count") # {} THEN 1 ELSE 0)
    /\ \A k \in 1..(Len(g.log) - 1) :
          /\ Rank(g.log[k].step) <= Rank(g.log[k + 1].step)
          /\ g.log[k].step = g.log[k + 1].step =>
                /\ g.log[k].step \in {"behaviors", "triangles"}
                /\ g.log[k].n < g.log[k + 1].n
    /\ (g.pc = "idle" /\ g.frames > 0) =>
          /\ {g.log[k].n : k \in LoggedAt("behaviors")}
                = {i \in 1..behavior_count(d) :
                      Executes([d EXCEPT !.frame_count = g.fc], d.behaviors[i])}
          /\ {g.log[k].n : k \in LoggedAt("triangles")} = 1..Len(TrisFrom(d.meshes, 1))
          /\ \A step \in {"buffers", "frame_count", "c3d_render", "free"} :
                Cardinality(LoggedAt(step)) = 1
          /\ d.frame_count = g.fc + 1
          /\ io.scratch \cap heap.live = {}

\* A call has returned that ran two behaviours and drew on the frame.
C20_Witness ==
    /\ g.pc = "idle" /\ g.frames > 0
    /\ Cardinality(LoggedAt("behaviors")) = 2
    /\ Cardinality(LoggedAt("triangles")) = 3
    /\ io.rendered # <<>>

(***************************************************************************)
(* c3d_meshabs, c3d_meshrel and c3d_meshcenter in exact arithmetic.  A     *)
(* mesh holds its corners times q; a matrix B stands for B / B[4][4]       *)
(* (affine matrices only: rotations times TrigScale, scalings and          *)
(* translations times 1).  A centre is a fraction n / q, 0 / 0 for the     *)
(* mesh of no triangles (the float quotient 0 / 0).  The matrices are of   *)
(* determinant other than 0; float rounding is not modelled.               *)
(***************************************************************************)
c3d_mat4scl(x, y, z) ==
    << <<x, 0, 0, 0>>, <<0, y, 0, 0>>, <<0, 0, z, 0>>, <<0, 0, 0, 1>> >>

\* A translation that is never applied.
TraOverNone(c, s) ==
    << <<s, 0, 0, 0>>, <<0, s, 0, 0>>, <<0, 0, s, 0>>, <<0, 0, 0, s>> >>

\* c3d_mat4tra(c / s), times s
TraOver(c, s) ==
    << <<s, 0, 0, c[1]>>, <<0, s, 0, c[2]>>, <<0, 0, s, c[3]>>, <<0, 0, 0, s>> >>

\* c3d_mat4vec3 of the vector A / q: the result times q * B[4][4]
c3d_mat4vec3(A, q, B) ==
    <<B[1][1] * A[1] + B[1][2] * A[2] + B[1][3] * A[3] + B[1][4] * q,
      B[2][1] * A[1] + B[2][2] * A[2] + B[2][3] * A[3] + B[2][4] * q,
      B[3][1] * A[1] + B[3][2] * A[2] + B[3][3] * A[3] + B[3][4] * q>>

Det3(M) ==
    M[1][1] * (M[2][2] * M[3][3] - M[2][3] * M[3][2])
    - M[1][2] * (M[2][1] * M[3][3] - M[2][3] * M[3][1])
    + M[1][3] * (M[2][1] * M[3][2] - M[2][2] * M[3][1])

\* c3d_mat4invtranspose3 times |det|: out[i][j] = inv[j][i]
c3d_mat4invtranspose3(M) ==
    LET s == Sign(Det3(M))
    IN << <<s * (M[2][2] * M[3][3] - M[2][3] * M[3][2]),
            s * (M[2][3] * M[3][1] - M[2][1] * M[3][3]),
            s * (M[2][1] * M[3][2] - M[2][2] * M[3][1])>>,
          <<s * (M[1][3] * M[3][2] - M[1][2] * M[3][3]),
            s * (M[1][1] * M[3][3] - M[1][3] * M[3][1]),
            s * (M[1][2] * M[3][1] - M[1][1] * M[3][2])>>,
          <<s * (M[1][2] * M[2][3] - M[1][3] * M[2][2]),
            s * (M[1][3] * M[2][1] - M[1][1] * M[2][3]),
            s * (M[1][1] * M[2][2] - M[1][2] * M[2][1])>> >>

\* v brought to components of at most 50 (a positive factor, which the
\* normalisation that follows removes)
Shrunk(v) ==
    LET top == Max2(Max2(Abs(v[1]), Abs(v[2])), Abs(v[3]))
    IN IF top = 0 THEN v
       ELSE <<RDiv(v[1] * 50, top), RDiv(v[2] * 50, top), RDiv(v[3] * 50, top)>>

\* The normal of a corner after c3d_meshabs, of length NormalScale
NormalAbs(n, it) ==
    c3d_vec3normalize(Shrunk(<<it[1][1] * n[1] + it[1][2] * n[2] + it[1][3] * n[3],
                               it[2][1] * n[1] + it[2][2] * n[2] + it[2][3] * n[3],
                               it[3][1] * n[1] + it[3][2] * n[2] + it[3][3] * n[3]>>))

\* The body of the loop of c3d_meshabs
TriAbs(t, q, B, it) ==
    [vx |-> c3d_mat4vec3(t.vx, q, B), vy |-> c3d_mat4vec3(t.vy, q, B),
     vz |-> c3d_mat4vec3(t.vz, q, B),
     nvx |-> NormalAbs(t.nvx, it), nvy |-> NormalAbs(t.nvy, it),
     nvz |-> NormalAbs(t.nvz, it)]

RECURSIVE TrisAbs(_, _, _, _, _)
TrisAbs(tris, i, q, B, it) ==
    IF i > Len(tris) THEN <<>>
    ELSE <<TriAbs(tris[i], q, B, it)>> \o TrisAbs(tris, i + 1, q, B, it)

Gcd3(v, k) == Gcd(Gcd(Gcd(k, v[1]), v[2]), v[3])

RECURSIVE GcdOfTris(_, _, _)
GcdOfTris(tris, i, k) ==
    IF i > Len(tris) THEN k
    ELSE GcdOfTris(tris, i + 1, Gcd3(tris[i].vz, Gcd3(tris[i].vy, Gcd3(tris[i].vx, k))))

Over(v, k) == <<v[1] \div k, v[2] \div k, v[3] \div k>>

RECURSIVE TrisOver(_, _, _)
TrisOver(tris, i, k) ==
    IF i > Len(tris) THEN <<>>
    ELSE <<[tris[i] EXCEPT !.vx = Over(@, k), !.vy = Over(@, k), !.vz = Over(@, k)]>>
         \o TrisOver(tris, i + 1, k)

\* The same mesh in lowest terms
LowestTerms(tris, q) ==
    LET k == GcdOfTris(tris, 1, q)
    IN [tris |-> TrisOver(tris, 1, k), q |-> q \div k]

c3d_meshabs(A, B) ==
    IF Len(A.tris) = 0 THEN A
    ELSE LowestTerms(TrisAbs(A.tris, 1, A.q, B, c3d_mat4invtranspose3(B)), A.q * B[4][4])

\* The sum of the corners, times q
RECURSIVE CornerSum(_, _)
CornerSum(tris, i) ==
    IF i > Len(tris) THEN <<0, 0, 0>>
    ELSE c3d_vec3add(c3d_vec3add(c3d_vec3add(tris[i].vx, tris[i].vy), tris[i].vz),
                     CornerSum(tris, i + 1))

c3d_meshcenter(A) == [n |-> CornerSum(A.tris, 1), q |-> Len(A.tris) * 3 * A.q]

Negated(v) == <<-v[1], -v[2], -v[3]>>

\* The matrices that c3d_meshrel passes to c3d_meshabs, in order
MeshRelCalls(A, B) ==
    LET cvec == c3d_meshcenter(A)
        translate_neg_center == TraOver(Negated(cvec.n), cvec.q)
        translate_pos_center == TraOver(cvec.n, cvec.q)
    IN <<translate_neg_center, B, translate_pos_center>>

c3d_meshrel(A, B) ==
    LET calls == MeshRelCalls(A, B)
    IN c3d_meshabs(c3d_meshabs(c3d_meshabs(A, calls[1]), calls[2]), calls[3])

RelTri(a, b, c) ==
    [vx |-> Vertices[a].v, vy |-> Vertices[b].v, vz |-> Vertices[c].v,
     nvx |-> Vertices[a].nv, nvy |-> Vertices[b].nv, nvz |-> Vertices[c].nv]

RelMeshes ==
    { [tris |-> <<>>, q |-> 1],
      [tris |-> <<RelTri(1, 2, 3)>>, q |-> 1],
      [tris |-> <<RelTri(4, 5, 6)>>, q |-> 1],
      [tris |-> <<RelTri(1, 2, 3), RelTri(2, 5, 6)>>, q |-> 1],
      [tris |-> <<RelTri(1, 4, 6), RelTri(3, 2, 5)>>, q |-> 1] }

RelMatrices ==
    { c3d_mat4rtx(1), c3d_mat4rty(2), c3d_mat4rty(-1),
      c3d_mat4scl(2, 1, 1), c3d_mat4scl(2, 2, 2), c3d_mat4scl(-1, 1, 3),
      c3d_mat4tra(1, 0, 0), c3d_mat4tra(0, -2, 1) }

InitRel ==
    /\ d = InitDisplay
    /\ heap = EmptyHeap
    /\ g = [call |-> "init"]
    /\ \E A \in RelMeshes :
          io = [mesh |-> A, before |-> A, B |-> c3d_mat4scl(1, 1, 1), calls |-> <<>>,
                center |-> c3d_meshcenter(A)]

\* c3d_meshabs on the mesh as loaded
MeshAbs ==
    /\ g.call = "init"
    /\ \E B \in RelMatrices :
          io' = [io EXCEPT !.mesh = c3d_meshabs(io.mesh, B), !.before = io.mesh, !.B = B,
                           !.calls = <<B>>]
    /\ g' = [call |-> "c3d_meshabs"]
    /\ UNCHANGED <<d, heap>>

\* c3d_meshrel on the mesh as loaded or as c3d_meshabs left it
MeshRel ==
    /\ g.call \in {"init", "c3d_meshabs"}
    /\ \E B \in RelMatrices :
          io' = [io EXCEPT !.mesh = c3d_meshrel(io.mesh, B), !.before = io.mesh, !.B = B,
                           !.calls = MeshRelCalls(io.mesh, B)]
    /\ g' = [call |-> "c3d_meshrel"]
    /\ UNCHANGED <<d, heap>>

\* c3d_meshcenter on the mesh as it is
MeshCenter ==
    /\ g.call \in {"c3d_meshabs", "c3d_meshrel"}
    /\ io' = [io EXCEPT !.center = c3d_meshcenter(io.mesh)]
    /\ g' = [call |-> "c3d_meshcenter"]
    /\ UNCHANGED <<d, heap>>

NextRel == MeshAbs \/ MeshRel \/ MeshCenter

SpecRel == InitRel /\ [][NextRel]_vars

\* C + B(p - C) for the corner p of the mesh A, as a fraction n / q
AboutCenter(A, B, p) ==
    LET C == c3d_meshcenter(A)
        V == Len(A.tris) * 3
        rel == <<V * p[1] - C.n[1], V * p[2] - C.n[2], V * p[3] - C.n[3]>>
        moved == c3d_mat4vec3(rel, C.q, B)
    IN [n |-> <<moved[1] + C.n[1] * B[4][4], moved[2] + C.n[2] * B[4][4],
                moved[3] + C.n[3] * B[4][4]>>,
        q |-> C.q * B[4][4]]

SamePoint(v, q, e) == \A k \in 1..3 : SameRatio(v[k], q, e.n[k], e.q)

SameCenter(a, b) ==
    \/ a.q = 0 /\ b.q = 0
    \/ a.q # 0 /\ b.q # 0 /\ \A k \in 1..3 : SameRatio(a.n[k], a.q, b.n[k], b.q)

NoTranslation(B) == B[1][4] = 0 /\ B[2][4] = 0 /\ B[3][4] = 0

\* C24: after c3d_meshrel(M, T) every corner p of M is at C + T(p - C) for
\* the centroid C of M before the call, the call having passed translate(-C),
\* T and translate(+C) to c3d_meshabs in that order; and for a T without a
\* translation part c3d_meshcenter(M) is what it was before the call.
C24_MeshRelAboutCenter ==
    g.call = "c3d_meshrel" =>
        LET A == io.before
            C == c3d_meshcenter(A)
        IN /\ Len(io.mesh.tris) = Len(A.tris)
           /\ io.calls = <<TraOver(Negated(C.n), C.q), io.B, TraOver(C.n, C.q)>>
           /\ \A i \in 1..Len(A.tris) :
                 /\ SamePoint(io.mesh.tris[i].vx, io.mesh.q, AboutCenter(A, io.B, A.tris[i].vx))
                 /\ SamePoint(io.mesh.tris[i].vy, io.mesh.q, AboutCenter(A, io.B, A.tris[i].vy))
                 /\ SamePoint(io.mesh.tris[i].vz, io.mesh.q, AboutCenter(A, io.B, A.tris[i].vz))
           /\ NoTranslation(io.B) => SameCenter(c3d_meshcenter(io.mesh), C)

\* C24 witness: c3d_meshrel has turned a mesh of two triangles, which
\* c3d_meshabs had moved off the origin, about its centre, and moved corners.
C24_Witness ==
    /\ g.call = "c3d_meshrel"
    /\ Len(io.before.tris) = 2
    /\ io.B = c3d_mat4rty(2)
    /\ c3d_meshcenter(io.before).n # <<0, 0, 0>>
    /\ ~SamePoint(io.mesh.tris[1].vx, io.mesh.q,
                  [n |-> io.before.tris[1].vx, q |-> io.before.q])
    /\ SameCenter(c3d_meshcenter(io.mesh), c3d_meshcenter(io.before))
====
